---- MODULE Spec2Model ----
(***************************************************************************)
(* A model of the relay core of claude-relay-service:                      *)
(*   - ClaudeRelayService.relayRequest (non-streaming relay),              *)
(*   - ClaudeRelayService._makeClaudeStreamRequestWithUsageCapture         *)
(*     (streaming relay: SSE forwarding, usage tap, health classification),*)
(*   - Http2Client.getSession (the HTTP/2 session pool).                   *)
(* One relay request is modelled at a time (SpecRelay); the session pool   *)
(* is modelled with several concurrent getSession calls (SpecPool).        *)
(***************************************************************************)
EXTENDS Integers, Sequences, FiniteSets, TLC

VARIABLES
    mode,        \* "nonstream" (relayRequest) | "stream" (relayStream...) | "pool"
    pc,          \* position of the request in its lifecycle
    status,      \* upstream status code, 0 while no response was received
    hdr5h,       \* the response carries anthropic-ratelimit-unified-5h-status
    acct,        \* health state of the selected account (KV counter and flags)
    calls,       \* health-update calls invoked for this request, in order
    failed,      \* the health-update calls that failed (threw / KV error)
    promise,     \* the promise of the relay: "pending" | "resolved" | "rejected"
    listening,   \* relayRequest: ingress sockets carrying handleClientDisconnect
    upstreamRequest, \* relayRequest: the local variable upstreamRequest
    closedInFlight,  \* relayRequest: an ingress socket closed while in flight
    aborted,     \* relayRequest: the upstream request was destroyed
    errListeners,\* stream: onResponse registered its 'data'/'end' listeners
    upstream,    \* stream: all bytes received from the upstream, in order
    buffer,      \* stream: the line buffer (decoded characters)
    cur,         \* stream: currentUsageData
    allUsage,    \* stream: allUsageData
    rld,         \* stream: rateLimitDetected
    errorData,   \* stream: errorData accumulated by the error 'data' listener
    ing,         \* stream: the ingress response stream
    usageLog,    \* stream: the arguments of every usageCallback invocation
    pcM,         \* stream: the async main 'end' handler
    pcH,         \* stream: the async handleErrorResponse
    upClosed,    \* stream: the upstream HTTP/2 stream was closed by the relay
    sessions,    \* pool: Http2Client.sessions, key -> cached session (0: none)
    sess,        \* pool: state of every session ever created
    sessKey,     \* pool: the sessionKey captured by a session's listeners
    gcall,       \* pool: the getSession calls
    kv401,       \* account: the KV key claude_account:<id>:401_errors
    rq,          \* account: the requests in flight on one account
    hdrReset,    \* the response header anthropic-ratelimit-unified-reset
    rlArgs,      \* the resetAt arguments passed to markAccountRateLimited
    ret,         \* relayRequest: the response object it returned
    clock,       \* createSession: time since the call, in ticks
    cs,          \* createSession: the connection attempt and its promise
    inp,         \* preparer: the arguments of _processRequestBody
    outp,        \* preparer: the body it returned
    errCode      \* the error of the upstream exchange: error.code of the stream
                 \* 'error' event, the rejection of http2Client.request ("none")

relayVars == <<status, hdr5h, acct, calls, failed, promise>>
nonStreamVars == <<listening, upstreamRequest, closedInFlight, aborted>>
streamVars == <<errListeners, upstream, buffer, cur, allUsage, rld, errorData,
                ing, usageLog, pcM, pcH, upClosed>>
poolVars == <<sessions, sess, sessKey, gcall>>
acctVars == <<kv401, rq>>
resetVars == <<hdrReset, rlArgs, errCode>>
connVars == <<clock, cs>>
prepVars == <<inp, outp>>
restVars == <<acctVars, resetVars, ret, connVars, prepVars>>
vars == <<mode, pc, relayVars, nonStreamVars, streamVars, poolVars, restVars>>

(***************************************************************************)
(* Bounds of the model.                                                    *)
(***************************************************************************)
\* total number of bytes (tokens) the upstream sends on one stream (SpecTap)
MaxBytes == 2
\* total number of bytes the upstream sends on one stream in SpecRelay
MaxLineBytes == 2
\* number of concurrent getSession calls
NumCalls == 2

\* upstream status codes tried
StatusSet == {200, 201, 400, 401, 403, 429, 500, 529}

\* The upstream byte alphabet.  "S", "D", "E" stand for the complete text of a
\* `data: {...}` line carrying a message_start with usage, a message_delta
\* with usage and an error event with the rate-limit message; "a" is any
\* other ASCII text, "sp" a blank, "nl" the newline; "L","C" are the lead and
\* the continuation byte of one two-byte UTF-8 character.
Bytes == {"S", "D", "E", "a", "sp", "nl", "L", "C"}

Last(s) == s[Len(s)]
Front(s) == SubSeq(s, 1, Len(s) - 1)

(***************************************************************************)
(* Account health: the calls the relay makes on the KV store, the          *)
(* scheduler and the account service.  A run of a handler is a record      *)
(*   [acct, calls, failed, threw];                                         *)
(* fault names the call that fails in this run ("none": no call fails).    *)
(***************************************************************************)
CallNames == {"incr401", "expire401", "get401", "del401", "markUnauthorized",
              "markBlocked", "markOverloaded", "recordServerError",
              "getServerErrorCount", "markRateLimited", "updateSessionWindow",
              "clearInternalErrors", "isRateLimited", "removeRateLimit",
              "isOverloaded", "removeOverload"}
Faults == CallNames \cup {"none"}

\* the health escalation actions of a response
Escalations == {"markUnauthorized", "markBlocked", "markOverloaded",
                "recordServerError", "markRateLimited"}

Run0(a, c, f) == [acct |-> a, calls |-> c, failed |-> f, threw |-> FALSE]

\* `await collaborator.name(...)`: the call is made unless an earlier call of
\* the run threw; it throws when it is the faulty one, else has its effect.
Invoke(r, name, fault, acct2) ==
    IF r.threw THEN r
    ELSE IF fault = name
         THEN [r EXCEPT !.calls = Append(@, name),
                        !.failed = @ \cup {name},
                        !.threw = TRUE]
         ELSE [r EXCEPT !.calls = Append(@, name), !.acct = acct2]

\* try { ... } catch (e) { logger.error(...) } around the calls from r0 to r1
Swallow(r0, r1) == IF r0.threw THEN r0 ELSE [r1 EXCEPT !.threw = FALSE]

\* recordUnauthorizedError: INCR then EXPIRE 300, failures logged
recordUnauthorizedError(r, fault) ==
    LET a == Invoke(r, "incr401", fault, [r.acct EXCEPT !.ctr401 = @ + 1])
        b == Invoke(a, "expire401", fault, [a.acct EXCEPT !.ttl401 = TRUE])
    IN  Swallow(r, b)

\* getUnauthorizedErrorCount: GET, parseInt(count) || 0, 0 on failure
getUnauthorizedErrorCount(r, fault) ==
    [run |-> Swallow(r, Invoke(r, "get401", fault, r.acct)),
     count |-> IF fault = "get401" THEN 0 ELSE r.acct.ctr401]

\* clearUnauthorizedErrors: DEL, failures logged
clearUnauthorizedErrors(r, fault) ==
    Swallow(r, Invoke(r, "del401", fault,
                      [r.acct EXCEPT !.ctr401 = 0, !.ttl401 = FALSE]))

\* the 401 branch: record, read the counter, escalate at threshold 1
Handle401(r, fault) ==
    LET a == recordUnauthorizedError(r, fault)
        g == getUnauthorizedErrorCount(a, fault)
    IN  IF g.count >= 1
        THEN Invoke(g.run, "markUnauthorized", fault, g.run.acct)
        ELSE g.run

\* the 529 branch: mark overloaded when overloadHandling.enabled > 0
Handle529(r, fault, ovEnabled) ==
    IF ovEnabled
    THEN Swallow(r, Invoke(r, "markOverloaded", fault, [r.acct EXCEPT !.ov = TRUE]))
    ELSE r

\* _handleServerError: record, read the count, only log; failures logged
HandleServerError(r, fault) ==
    LET a == Invoke(r, "recordServerError", fault, r.acct)
        b == Invoke(a, "getServerErrorCount", fault, a.acct)
    IN  Swallow(r, b)

\* the rate-limit escalation
MarkRateLimited(r, fault) ==
    Invoke(r, "markRateLimited", fault, [r.acct EXCEPT !.rl = TRUE])

\* updateSessionWindowStatus when the 5h-status header is present
SessionWindow(r, fault, has5h) ==
    IF has5h THEN Invoke(r, "updateSessionWindow", fault, r.acct) ELSE r

\* ClearOnSuccess without the removal of the overload flag
ClearOnSuccess_KeepOverload(r, fault) ==
    LET a == clearUnauthorizedErrors(r, fault)
        b == Invoke(a, "clearInternalErrors", fault, a.acct)
        c == Invoke(b, "isRateLimited", fault, b.acct)
    IN  IF ~c.threw /\ c.acct.rl
        THEN Invoke(c, "removeRateLimit", fault, [c.acct EXCEPT !.rl = FALSE])
        ELSE c

\* success: clear the 401 and server-error counters, remove the rate-limit
\* and overload flags when the account carries them
ClearOnSuccess(r, fault) ==
    LET a == clearUnauthorizedErrors(r, fault)
        b == Invoke(a, "clearInternalErrors", fault, a.acct)
        c == Invoke(b, "isRateLimited", fault, b.acct)
        d == IF ~c.threw /\ c.acct.rl
             THEN Invoke(c, "removeRateLimit", fault, [c.acct EXCEPT !.rl = FALSE])
             ELSE c
        e == Invoke(d, "isOverloaded", fault, d.acct)
        f == IF ~e.threw /\ e.acct.ov
             THEN Invoke(e, "removeOverload", fault, [e.acct EXCEPT !.ov = FALSE])
             ELSE e
    IN  Swallow(d, f)

\* relayRequest: is the response a success (200 or 201)
IsSuccessNonStream(st) == st = 200 \/ st = 201

\* relayRequest: the health classification of a response.  marker: the body
\* carries "exceed your account's rate limit".
ClassifyNonStream(st, has5h, marker, ovEnabled, r, fault) ==
    IF ~IsSuccessNonStream(st)
    THEN LET r1 == CASE st = 401 -> Handle401(r, fault)
                     [] st = 403 -> Invoke(r, "markBlocked", fault, r.acct)
                     [] st = 529 -> Handle529(r, fault, ovEnabled)
                     [] st \notin {401, 403, 529} /\ st >= 500 /\ st < 600
                                 -> HandleServerError(r, fault)
                     [] OTHER -> r
             isRateLimited ==
                 \/ st = 429
                 \/ /\ st \notin {401, 403, 529, 429}
                    /\ ~(st >= 500 /\ st < 600)
                    /\ marker
         IN  IF isRateLimited THEN MarkRateLimited(r1, fault) ELSE r1
    ELSE ClearOnSuccess(SessionWindow(r, fault, has5h), fault)


(***************************************************************************)
(* The initial health state of the selected account: the 401 counter (with *)
(* its TTL when it exists) and the rate-limit / overload flags.            *)
(***************************************************************************)
AcctInit == {[known |-> TRUE, ctr401 |-> c, ttl401 |-> (c > 0), rl |-> r, ov |-> o] :
                c \in 0..1, r \in BOOLEAN, o \in BOOLEAN}

\* The account's health state lives in the KV store and in the scheduler and
\* is shared by every request on the account: the model fixes its value when
\* this request touches it for the first time.
AcctUntouched == [known |-> FALSE, ctr401 |-> 0, ttl401 |-> FALSE, rl |-> FALSE, ov |-> FALSE]
AcctAt(a, a0) == IF a.known THEN a ELSE a0

NoUsage == [in |-> -1, out |-> -1]
IngInit == [out |-> <<>>, ends |-> 0, late |-> 0, destroyed |-> FALSE, head |-> 0]

SessionKeys == {"h1:443", "h2:443"}

PoolIdle ==
    /\ sessions = [k \in SessionKeys |-> 0]
    /\ sess = [i \in 1..NumCalls |-> "none"]
    /\ sessKey = [i \in 1..NumCalls |-> "none"]
    /\ gcall = [c \in 1..NumCalls |->
                   [pc |-> "idle", key |-> "none", got |-> 0, agent |-> "unset"]]

\* number of concurrent requests on one account
NumReqs == 2

AcctIdle ==
    /\ kv401 = [n |-> 0, ttl |-> FALSE]
    /\ rq = [r \in 1..NumReqs |-> [pc |-> "idle", status |-> 0, count |-> 0,
                                   ttlSet |-> FALSE, marked |-> FALSE,
                                   kvFailed |-> FALSE]]

\* a response header: absent, or present with its text
NoHeader == [present |-> FALSE, text |-> <<>>]
ResetHeaders == {NoHeader, [present |-> TRUE, text |-> <<"1", "7">>]}

\* JavaScript values of rateLimitResetTimestamp
Null == [kind |-> "null", v |-> 0]
NaN == [kind |-> "NaN", v |-> 0]
IntVal(n) == [kind |-> "int", v |-> n]

DigitChars == <<"0", "1", "2", "3", "4", "5", "6", "7", "8", "9">>
Digits == {DigitChars[i] : i \in DOMAIN DigitChars}
DigitVal(c) == (CHOOSE i \in DOMAIN DigitChars : DigitChars[i] = c) - 1

\* parseInt(text): the value of the longest prefix of decimal digits, NaN
\* when the text does not start with a digit
RECURSIVE DigitPrefix(_)
DigitPrefix(t) ==
    IF t = <<>> \/ t[1] \notin Digits THEN <<>> ELSE <<t[1]>> \o DigitPrefix(Tail(t))
RECURSIVE DecimalValue(_)
DecimalValue(t) ==
    IF t = <<>> THEN 0 ELSE 10 * DecimalValue(Front(t)) + DigitVal(Last(t))
ParseInt(t) == IF DigitPrefix(t) = <<>> THEN NaN ELSE IntVal(DecimalValue(DigitPrefix(t)))

\* if (headers && headers['anthropic-ratelimit-unified-reset']) parseInt(...)
HeaderTruthy(h) == h.present /\ h.text # <<>>
HeaderResetAt(h) == IF HeaderTruthy(h) THEN ParseInt(h.text) ELSE Null

\* relayRequest reads the header in its 429 branch only
NonStreamResetAt(st, h) == IF st = 429 THEN HeaderResetAt(h) ELSE Null

\* number of calls of a name in a run
CountCalls(c, name) == Cardinality({i \in DOMAIN c : c[i] = name})

\* the arguments log after a run that started with calls c0 and ended with c1
LogResetAt(log, c0, c1, arg) ==
    IF CountCalls(c1, "markRateLimited") > CountCalls(c0, "markRateLimited")
    THEN Append(log, arg) ELSE log

ResetIdle == hdrReset = NoHeader /\ rlArgs = <<>> /\ errCode = "none"

\* the response of the upstream as relayRequest sees it: status, the two
\* headers the relay reads, the body (with or without the rate-limit marker)
UpstreamResponse(st, has5h, hreset, marker) ==
    [statusCode |-> st, has5h |-> has5h, reset |-> hreset, marker |-> marker,
     accountId |-> "unset"]

\* no response object returned
NoResponse == UpstreamResponse(0, FALSE, NoHeader, FALSE)

\* response.accountId = accountId; return response
Annotate(resp) == [resp EXCEPT !.accountId = "selected"]

\* a createSession call before its first step
ConnStart(proxied) ==
    [proxied |-> proxied, stage |-> "called", armedAt |-> -1, result |-> "pending",
     sessionClosed |-> FALSE, socketDestroyed |-> FALSE]

ConnIdle == clock = 0 /\ cs = ConnStart(FALSE)

\* no call of the preparer: no arguments, nothing returned
NotPrepared == [done |-> FALSE, body |-> "none"]
PrepIdle == inp = "none" /\ outp = NotPrepared

RestIdle == AcctIdle /\ ResetIdle /\ ret = NoResponse /\ ConnIdle /\ PrepIdle

RelayIdle ==
    /\ status = 0
    /\ hdr5h = FALSE
    /\ calls = <<>>
    /\ failed = {}
    /\ promise = "pending"
    /\ listening = {}
    /\ upstreamRequest = "null"
    /\ closedInFlight = FALSE
    /\ aborted = FALSE
    /\ errListeners = FALSE
    /\ upstream = <<>>
    /\ buffer = <<>>
    /\ cur = NoUsage
    /\ allUsage = <<>>
    /\ rld = FALSE
    /\ errorData = <<>>
    /\ ing = IngInit
    /\ usageLog = <<>>
    /\ pcM = "idle"
    /\ pcH = "idle"
    /\ upClosed = FALSE

InitRelay ==
    /\ mode \in {"nonstream", "stream"}
    /\ pc = "start"
    /\ acct = AcctUntouched
    /\ RelayIdle
    /\ PoolIdle
    /\ RestIdle

Settle(p, how) == IF p = "pending" THEN how ELSE p

(***************************************************************************)
(* relayRequest (non-streaming).                                           *)
(***************************************************************************)
\* account selection, token, account or proxy lookup throws before dispatch
NS_PrepareFail ==
    /\ mode = "nonstream" /\ pc = "start"
    /\ pc' = "done"
    /\ promise' = "rejected"
    /\ UNCHANGED <<restVars, mode, status, hdr5h, acct, calls, failed, nonStreamVars,
                   streamVars, poolVars>>

\* the value relayRequest's onRequest callback leaves in upstreamRequest:
\* _makeClaudeRequest receives onRequest and never invokes it
OnRequestResult(old) == old

\* the disconnect listeners are registered, then _makeClaudeRequest dispatches
NS_Dispatch ==
    /\ mode = "nonstream" /\ pc = "start"
    /\ pc' = "inflight"
    /\ listening' = {"req", "resp"}
    /\ upstreamRequest' = OnRequestResult(upstreamRequest)
    /\ UNCHANGED <<restVars, mode, relayVars, closedInFlight, aborted, streamVars, poolVars>>

\* handleClientDisconnect's effect on the upstream request
DisconnectAborts(req, wasAborted) == wasAborted \/ req # "null"

\* an ingress socket emits 'close': handleClientDisconnect (registered once)
NS_ClientClose(sock) ==
    /\ mode = "nonstream"
    /\ sock \in listening
    /\ listening' = listening \ {sock}
    /\ aborted' = DisconnectAborts(upstreamRequest, aborted)
    /\ closedInFlight' = (closedInFlight \/ pc = "inflight")
    /\ UNCHANGED <<restVars, mode, pc, relayVars, upstreamRequest, streamVars, poolVars>>

\* ListenersAfterResponse without the two removeListener calls
ListenersAfterResponse_Kept(l) == l

\* the listeners left on the ingress sockets once the response was received
ListenersAfterResponse(l) == {}

\* the upstream response arrives: listeners removed, health classified,
\* the response returned (or the failure of a health call thrown)
NS_Response(st, has5h, hreset, marker, ovEnabled, fault, a0) ==
    /\ mode = "nonstream" /\ pc = "inflight" /\ ~aborted
    /\ LET r == ClassifyNonStream(st, has5h, marker, ovEnabled,
                                  Run0(AcctAt(acct, a0), calls, failed), fault)
       IN  /\ acct' = r.acct
           /\ calls' = r.calls
           /\ failed' = r.failed
           /\ promise' = IF r.threw THEN "rejected" ELSE "resolved"
           /\ rlArgs' = LogResetAt(rlArgs, calls, r.calls, NonStreamResetAt(st, hreset))
           /\ ret' = IF r.threw THEN ret
                     ELSE Annotate(UpstreamResponse(st, has5h, hreset, marker))
    /\ status' = st
    /\ hdr5h' = has5h
    /\ hdrReset' = hreset
    /\ pc' = "done"
    /\ listening' = ListenersAfterResponse(listening)
    /\ UNCHANGED <<acctVars, connVars, prepVars, errCode, mode, upstreamRequest, closedInFlight, aborted, streamVars, poolVars>>

NetErrors == {"ECONNRESET", "ENOTFOUND", "ECONNREFUSED", "timeout"}

\* http2Client.request rejects: a timeout records a synthesized 504, then
\* _makeClaudeRequest throws and relayRequest rethrows
NS_UpstreamFail(err, fault, a0) ==
    /\ mode = "nonstream" /\ pc = "inflight"
    /\ LET r0 == Run0(IF err = "timeout" THEN AcctAt(acct, a0) ELSE acct, calls, failed)
           r == IF err = "timeout" THEN HandleServerError(r0, fault) ELSE r0
       IN  /\ acct' = r.acct
           /\ calls' = r.calls
           /\ failed' = r.failed
    /\ promise' = "rejected"
    /\ pc' = "done"
    /\ errCode' = err
    /\ UNCHANGED <<acctVars, hdrReset, rlArgs, ret, connVars, prepVars, mode, status,
                   hdr5h, nonStreamVars, streamVars, poolVars>>


(***************************************************************************)
(* Streaming relay: text helpers.                                          *)
(***************************************************************************)
\* chunk.toString(): UTF-8 decoding of ONE chunk.  A complete two-byte
\* sequence decodes to the character "ch"; a lead byte without its
\* continuation byte, or a continuation byte without its lead byte, decodes
\* to the replacement character "U+FFFD".
RECURSIVE Decode(_)
Decode(b) ==
    IF b = <<>> THEN <<>>
    ELSE IF b[1] = "L"
         THEN IF Len(b) >= 2 /\ b[2] = "C"
              THEN <<"ch">> \o Decode(SubSeq(b, 3, Len(b)))
              ELSE <<"U+FFFD">> \o Decode(Tail(b))
         ELSE IF b[1] = "C"
              THEN <<"U+FFFD">> \o Decode(Tail(b))
              ELSE <<b[1]>> \o Decode(Tail(b))

\* responseStream.write(string): UTF-8 encoding of the characters
RECURSIVE Encode(_)
Encode(t) ==
    IF t = <<>> THEN <<>>
    ELSE (CASE t[1] = "ch" -> <<"L", "C">>
            [] t[1] = "U+FFFD" -> <<"xEF", "xBF", "xBD">>
            [] OTHER -> <<t[1]>>) \o Encode(Tail(t))

\* the upstream sends well-formed UTF-8: a continuation byte only after its
\* lead byte, a lead byte only before its continuation byte
RECURSIVE WellFormed(_)
WellFormed(b) ==
    IF b = <<>> THEN TRUE
    ELSE IF b[1] = "L" THEN Len(b) >= 2 /\ b[2] = "C" /\ WellFormed(SubSeq(b, 3, Len(b)))
    ELSE b[1] # "C" /\ WellFormed(Tail(b))

\* a prefix of a well-formed text: it may end with a lead byte
WellFormedPrefix(b) == WellFormed(b) \/ (b # <<>> /\ Last(b) = "L" /\ WellFormed(Front(b)))

\* buffer.split('\n')
RECURSIVE SplitLines(_)
SplitLines(t) ==
    IF \A i \in 1..Len(t) : t[i] # "nl" THEN <<t>>
    ELSE LET i == CHOOSE j \in 1..Len(t) :
                      t[j] = "nl" /\ \A k \in 1..(j - 1) : t[k] # "nl"
         IN  <<SubSeq(t, 1, i - 1)>> \o SplitLines(SubSeq(t, i + 1, Len(t)))

\* lines.join('\n') + '\n'
RECURSIVE JoinLines(_)
JoinLines(ls) ==
    IF ls = <<>> THEN <<>> ELSE ls[1] \o <<"nl">> \o JoinLines(Tail(ls))

\* buffer.trim() is not empty
TrimNonEmpty(t) == \E i \in 1..Len(t) : t[i] \notin {"sp", "nl"}

\* all the sequences over Bytes of length 1..n
ChunksUpTo(n) == UNION {[1..k -> Bytes] : k \in 1..n}

(***************************************************************************)
(* Streaming relay: the usage tap.  u = [cur, all, rld].                   *)
(***************************************************************************)
\* the usage parsing of one complete line
ProcessLine(u, line) ==
    IF line = <<"S">>
    THEN \* message_start with usage
         LET pushed == u.cur.in # -1 /\ u.cur.out # -1
             c0 == IF pushed THEN NoUsage ELSE u.cur
         IN  [u EXCEPT !.all = IF pushed THEN Append(@, u.cur) ELSE @,
                       !.cur = [c0 EXCEPT !.in = 2]]
    ELSE IF line = <<"D">>
    THEN \* message_delta with usage.output_tokens
         LET c1 == [u.cur EXCEPT !.out = 3]
         IN  IF c1.in # -1
             THEN [u EXCEPT !.all = Append(@, c1), !.cur = NoUsage]
             ELSE [u EXCEPT !.cur = c1]
    ELSE IF line = <<"E">>
    THEN \* error event with the rate-limit message
         [u EXCEPT !.rld = TRUE]
    ELSE u

RECURSIVE ProcessLines(_, _)
ProcessLines(u, ls) ==
    IF ls = <<>> THEN u ELSE ProcessLines(ProcessLine(u, ls[1]), Tail(ls))

\* stream end: an unfinished record is pushed with output_tokens 0
FinishUsage(c, all) ==
    IF c.in # -1
    THEN Append(all, [c EXCEPT !.out = IF @ = -1 THEN 0 ELSE @])
    ELSE all

RECURSIVE SumIn(_)
SumIn(all) == IF all = <<>> THEN 0 ELSE all[1].in + SumIn(Tail(all))
RECURSIVE SumOut(_)
SumOut(all) == IF all = <<>> THEN 0 ELSE all[1].out + SumOut(Tail(all))

\* the merged record passed to usageCallback
FinalUsage(all) == [in |-> SumIn(all), out |-> SumOut(all)]

\* UsageCallbacks without the test for captured usage
UsageCallbacks_Always(log, all) == Append(log, FinalUsage(all))

\* the usageCallback invocations of the main 'end' handler
UsageCallbacks(log, all) ==
    IF Len(all) = 0 THEN log ELSE Append(log, FinalUsage(all))

(***************************************************************************)
(* Streaming relay: the ingress stream.                                    *)
(***************************************************************************)
\* responseStream.write: bytes are delivered until end() was called; a write
\* after end() delivers nothing (ERR_STREAM_WRITE_AFTER_END)
IngWrite(g, bytes) ==
    IF g.ends > 0
    THEN [g EXCEPT !.late = @ + 1]
    ELSE [g EXCEPT !.out = @ \o bytes, !.head = IF @ = 0 THEN 200 ELSE @]

IngEnd(g) == [g EXCEPT !.ends = @ + 1, !.head = IF @ = 0 THEN 200 ELSE @]

\* if (!responseStream.headersSent) responseStream.writeHead(code, ...)
IngHead(g, code) == IF g.head = 0 THEN [g EXCEPT !.head = code] ELSE g

\* if (!responseStream.destroyed) { write('event: error\n'); write(data); end() }
IngErrorFrame(g, kind) ==
    IF g.destroyed THEN g
    ELSE IngEnd(IngWrite(IngWrite(g, <<"event: error">>), <<kind>>))

ErrorFrames == {"api-error", "stream-error", "timeout", "setup-error"}


(***************************************************************************)
(* Streaming relay: the handlers.                                          *)
(***************************************************************************)
\* account selection, token, account or proxy lookup throws before the stream
ST_PrepareFail ==
    /\ mode = "stream" /\ pc = "start"
    /\ pc' = "prepFailed"
    /\ promise' = "rejected"
    /\ UNCHANGED <<restVars, mode, status, hdr5h, acct, calls, failed, nonStreamVars,
                   streamVars, poolVars>>

\* http2Client.streamSSE throws: the catch of setupStream
ST_SetupFail ==
    /\ mode = "stream" /\ pc = "start"
    /\ pc' = "setupFailed"
    /\ ing' = IngErrorFrame(IngHead(ing, 500), "setup-error")
    /\ promise' = "rejected"
    /\ UNCHANGED <<restVars, mode, status, hdr5h, acct, calls, failed, nonStreamVars,
                   errListeners, upstream, buffer, cur, allUsage, rld, errorData,
                   usageLog, pcM, pcH, upClosed, poolVars>>

\* streamSSE returned the stream: the main 'data', 'end', 'error', 'timeout'
\* listeners and the ingress 'close' listener are attached
ST_Open ==
    /\ mode = "stream" /\ pc = "start"
    /\ pc' = "open"
    /\ UNCHANGED <<restVars, mode, relayVars, nonStreamVars, streamVars, poolVars>>

\* does handleErrorResponse have a branch for the status
HasErrorBranch(st) == st \in {401, 403, 529} \/ (st >= 500 /\ st < 600)

\* onResponse: a status other than 200 starts handleErrorResponse and
\* registers the error 'data' and 'end' listeners on the same stream
ST_OnResponse(st, has5h, hreset) ==
    /\ mode = "stream" /\ pc = "open" /\ ~upClosed
    /\ pc' = "resp"
    /\ status' = st
    /\ hdr5h' = has5h
    /\ hdrReset' = hreset
    /\ errListeners' = (st # 200)
    /\ pcH' = IF st # 200 /\ HasErrorBranch(st) THEN "run" ELSE "done"
    /\ UNCHANGED <<acctVars, connVars, prepVars, rlArgs, errCode, ret, mode, acct, calls, failed, promise, nonStreamVars, upstream,
                   buffer, cur, allUsage, rld, errorData, ing, usageLog, pcM,
                   upClosed, poolVars>>

\* handleErrorResponse: the health branch of the error status
ErrorResponseHealth(st, ovEnabled, r, fault) ==
    CASE st = 401 -> Handle401(r, fault)
      [] st = 403 -> Invoke(r, "markBlocked", fault, r.acct)
      [] st = 529 -> Handle529(r, fault, ovEnabled)
      [] st \notin {401, 403, 529} /\ st >= 500 /\ st < 600 -> HandleServerError(r, fault)
      [] OTHER -> r

\* handleErrorResponse runs to its end; a failure is caught by .catch
ST_HandleErrorResponse(ovEnabled, fault, a0) ==
    /\ mode = "stream" /\ pcH = "run"
    /\ pcH' = "done"
    /\ LET r == ErrorResponseHealth(status, ovEnabled,
                                    Run0(AcctAt(acct, a0), calls, failed), fault)
       IN  /\ acct' = r.acct
           /\ calls' = r.calls
           /\ failed' = r.failed
    /\ UNCHANGED <<restVars, mode, pc, status, hdr5h, promise, nonStreamVars, errListeners,
                   upstream, buffer, cur, allUsage, rld, errorData, ing, usageLog,
                   pcM, upClosed, poolVars>>

\* what the main 'data' handler forwards to the ingress for the complete lines
ForwardLines(g, ls) ==
    IF Len(ls) > 0 /\ ~g.destroyed THEN IngWrite(g, Encode(JoinLines(ls))) ELSE g

\* a chunk arrives: the main 'data' handler (split, forward, parse), then the
\* error 'data' listener when it is registered
ST_OnData(chunk, limit) ==
    /\ mode = "stream" /\ pc = "resp" /\ ~upClosed
    /\ Len(upstream) + Len(chunk) <= limit
    /\ WellFormedPrefix(upstream \o chunk)
    /\ upstream' = upstream \o chunk
    /\ LET chunkStr == Decode(chunk)
           ls == SplitLines(buffer \o chunkStr)
           complete == Front(ls)
           u == ProcessLines([cur |-> cur, all |-> allUsage, rld |-> rld], complete)
       IN  /\ buffer' = Last(ls)
           /\ ing' = ForwardLines(ing, complete)
           /\ cur' = u.cur
           /\ allUsage' = u.all
           /\ rld' = u.rld
           /\ errorData' = IF errListeners THEN errorData \o chunkStr ELSE errorData
    /\ UNCHANGED <<restVars, mode, pc, relayVars, nonStreamVars, errListeners, usageLog,
                   pcM, pcH, upClosed, poolVars>>

\* the main 'end' handler flushes the rest of the buffer and ends the ingress
FlushAndEnd(g, buf) ==
    LET w == IF TrimNonEmpty(buf) /\ ~g.destroyed THEN IngWrite(g, Encode(buf)) ELSE g
    IN  IF ~w.destroyed THEN IngEnd(w) ELSE w

\* the main 'end' handler reaches an await before its resolve()
MainEndAwaits(st, has5h, rateLimitDetected) ==
    has5h \/ rateLimitDetected \/ st = 429 \/ st = 200

\* the upstream stream ends: the main 'end' handler runs up to its first
\* await (or to resolve() when it has none), then the error 'end' listener.
\* The stream ends after its response, or, without a response, once the
\* ingress 'close' listener has closed it (stream.close() with NO_ERROR ends
\* the readable side).
ST_OnEnd ==
    /\ mode = "stream"
    /\ pc = "resp" \/ (pc = "open" /\ upClosed)
    /\ WellFormed(upstream)
    /\ pc' = "ended"
    /\ LET all == FinishUsage(cur, allUsage)
           g1 == FlushAndEnd(ing, buffer)
           awaits == MainEndAwaits(status, hdr5h, rld)
           p1 == IF awaits THEN promise ELSE Settle(promise, "resolved")
       IN  /\ allUsage' = all
           /\ usageLog' = UsageCallbacks(usageLog, all)
           /\ pcM' = IF awaits THEN "await" ELSE "done"
           /\ ing' = IF errListeners THEN IngErrorFrame(g1, "api-error") ELSE g1
           /\ promise' = IF errListeners THEN Settle(p1, "rejected") ELSE p1
    /\ UNCHANGED <<restVars, mode, status, hdr5h, acct, calls, failed, nonStreamVars,
                   errListeners, upstream, buffer, cur, rld, errorData, pcH,
                   upClosed, poolVars>>

\* the main 'end' handler after its first await: session window, then the
\* rate-limit escalation or the success clearing
StreamEndHealth(st, has5h, rateLimitDetected, r, fault) ==
    LET r1 == SessionWindow(r, fault, has5h)
    IN  IF rateLimitDetected \/ st = 429 THEN MarkRateLimited(r1, fault)
        ELSE IF st = 200 THEN ClearOnSuccess(r1, fault)
        ELSE r1

\* the main 'end' handler resumes and calls resolve(), unless an awaited
\* call threw: then the handler's own promise rejects and resolve() is skipped
ST_MainEndResume(fault, a0) ==
    /\ mode = "stream" /\ pcM = "await"
    /\ LET r == StreamEndHealth(status, hdr5h, rld,
                                Run0(AcctAt(acct, a0), calls, failed), fault)
       IN  /\ acct' = r.acct
           /\ calls' = r.calls
           /\ failed' = r.failed
           /\ pcM' = IF r.threw THEN "threw" ELSE "done"
           /\ promise' = IF r.threw THEN promise ELSE Settle(promise, "resolved")
           /\ rlArgs' = LogResetAt(rlArgs, calls, r.calls, HeaderResetAt(hdrReset))
    /\ UNCHANGED <<acctVars, connVars, prepVars, hdrReset, errCode, ret, mode, pc, status, hdr5h, nonStreamVars, errListeners, upstream,
                   buffer, cur, allUsage, rld, errorData, ing, usageLog, pcH,
                   upClosed, poolVars>>

\* error.code values of a stream 'error' event ("OTHER": any other code)
ErrorCodes == {"ECONNRESET", "ENOTFOUND", "ECONNREFUSED", "ETIMEDOUT", "OTHER"}

\* a handler answering every stream error with 502
ErrorStatus_Always502(code) == 502

\* the status the 'error' handler picks for an error code
ErrorStatus(code) ==
    IF code \in {"ECONNRESET", "ENOTFOUND", "ECONNREFUSED"} THEN 502
    ELSE IF code = "ETIMEDOUT" THEN 504
    ELSE 500

\* the stream emits 'error' before its end
ST_OnError(code) ==
    /\ mode = "stream" /\ pc \in {"open", "resp"} /\ ~upClosed
    /\ pc' = "errored"
    /\ errCode' = code
    /\ ing' = IngErrorFrame(IngHead(ing, ErrorStatus(code)), "stream-error")
    /\ promise' = Settle(promise, "rejected")
    /\ UNCHANGED <<acctVars, hdrReset, rlArgs, ret, connVars, prepVars, mode, status, hdr5h, acct, calls, failed, nonStreamVars,
                   errListeners, upstream, buffer, cur, allUsage, rld, errorData,
                   usageLog, pcM, pcH, upClosed, poolVars>>

\* the stream emits 'timeout': streamSSE cancels it, the relay answers 504
ST_OnTimeout ==
    /\ mode = "stream" /\ pc \in {"open", "resp"} /\ ~upClosed
    /\ pc' = "timedout"
    /\ upClosed' = TRUE
    /\ ing' = IngErrorFrame(IngHead(ing, 504), "timeout")
    /\ promise' = Settle(promise, "rejected")
    /\ UNCHANGED <<restVars, mode, status, hdr5h, acct, calls, failed, nonStreamVars,
                   errListeners, upstream, buffer, cur, allUsage, rld, errorData,
                   usageLog, pcM, pcH, poolVars>>

\* the ingress emits 'close': its listener closes the upstream stream
ST_IngressClose ==
    /\ mode = "stream" /\ ~ing.destroyed
    /\ pc \in {"start", "open", "resp"}
    /\ ing' = [ing EXCEPT !.destroyed = TRUE]
    /\ upClosed' = (upClosed \/ pc \in {"open", "resp"})
    /\ UNCHANGED <<restVars, mode, pc, relayVars, nonStreamVars, errListeners, upstream,
                   buffer, cur, allUsage, rld, errorData, usageLog, pcM, pcH,
                   poolVars>>

\* the account states this request may find when it first touches the account
AcctChoices(a) == IF a.known THEN {a} ELSE AcctInit

\* the calls that may fail in a run: the ones the run makes (r: the run
\* without any failure, n0: the calls made before it)
FaultChoices(r, n0) == {"none"} \cup {r.calls[i] : i \in (n0 + 1)..Len(r.calls)}

\* the chunks tried where the health classification is explored: whole lines
\* (usage, rate-limit error event) and a text without newline
LineChunks == {<<"S", "nl">>, <<"E", "nl">>, <<"a">>}

NS_ResponseAny ==
    \E st \in StatusSet, has5h \in BOOLEAN, marker \in BOOLEAN,
       ovEnabled \in BOOLEAN, a0 \in AcctChoices(acct) :
       \E fault \in FaultChoices(ClassifyNonStream(st, has5h, marker, ovEnabled,
                                    Run0(a0, calls, failed), "none"), Len(calls)) :
          \E hreset \in ResetHeaders :
             NS_Response(st, has5h, hreset, marker, ovEnabled, fault, a0)

NS_UpstreamFailAny ==
    \E err \in NetErrors, a0 \in AcctChoices(acct) :
       \E fault \in (IF err = "timeout"
                     THEN {"none", "recordServerError", "getServerErrorCount"}
                     ELSE {"none"}) :
          NS_UpstreamFail(err, fault, a0)

ST_HandleErrorResponseAny ==
    \E ovEnabled \in BOOLEAN, a0 \in AcctChoices(acct) :
       \E fault \in FaultChoices(ErrorResponseHealth(status, ovEnabled,
                                    Run0(a0, calls, failed), "none"), Len(calls)) :
          ST_HandleErrorResponse(ovEnabled, fault, a0)

ST_MainEndResumeAny ==
    \E a0 \in AcctChoices(acct) :
       \E fault \in FaultChoices(StreamEndHealth(status, hdr5h, rld,
                                    Run0(a0, calls, failed), "none"), Len(calls)) :
          ST_MainEndResume(fault, a0)

(***************************************************************************)
(* SpecRelay: one relay request, non-streaming or streaming, with every    *)
(* status, every account state and every failing health call; the          *)
(* upstream body arrives in whole lines.                                   *)
(***************************************************************************)
NextRelay ==
    \/ NS_PrepareFail
    \/ NS_Dispatch
    \/ \E sock \in {"req", "resp"} : NS_ClientClose(sock)
    \/ NS_ResponseAny
    \/ NS_UpstreamFailAny
    \/ ST_PrepareFail
    \/ ST_SetupFail
    \/ ST_Open
    \/ \E st \in StatusSet, has5h \in BOOLEAN, hreset \in ResetHeaders :
          ST_OnResponse(st, has5h, hreset)
    \/ ST_HandleErrorResponseAny
    \/ \E chunk \in LineChunks : ST_OnData(chunk, MaxLineBytes)
    \/ ST_OnEnd
    \/ ST_MainEndResumeAny
    \/ \E code \in ErrorCodes : ST_OnError(code)
    \/ ST_OnTimeout
    \/ ST_IngressClose

SpecRelay == InitRelay /\ [][NextRelay]_vars

\* the steps of a streaming request that cannot be put off forever: the
\* preparation and the stream setup finish, an open stream ends or reaches its
\* timeout (streamSSE arms stream.setTimeout), an awaited health call of the
\* 'end' handler completes
StreamProgress ==
    \/ ST_PrepareFail
    \/ ST_SetupFail
    \/ ST_Open
    \/ ST_OnEnd
    \/ ST_OnTimeout
    \/ ST_MainEndResumeAny

SpecRelayLive == SpecRelay /\ WF_vars(StreamProgress)

(***************************************************************************)
(* SpecTap: one streaming request with every byte sequence and every       *)
(* chunking of it within MaxBytes; no health call fails and the account    *)
(* starts without counter or flag.                                         *)
(***************************************************************************)
AcctClean == [known |-> TRUE, ctr401 |-> 0, ttl401 |-> FALSE, rl |-> FALSE, ov |-> FALSE]

\* statuses tried in SpecTap: success, a 2xx other than 200, rate limit, 5xx
TapStatus == {200, 201, 429, 500}

InitTap ==
    /\ mode = "stream"
    /\ pc = "start"
    /\ acct = AcctUntouched
    /\ RelayIdle
    /\ PoolIdle
    /\ RestIdle

NextTap ==
    \/ ST_SetupFail
    \/ ST_Open
    \/ \E st \in TapStatus : ST_OnResponse(st, FALSE, NoHeader)
    \/ ST_HandleErrorResponse(TRUE, "none", AcctClean)
    \/ \E chunk \in ChunksUpTo(MaxBytes) : ST_OnData(chunk, MaxBytes)
    \/ ST_OnEnd
    \/ ST_MainEndResume("none", AcctClean)
    \/ \E code \in ErrorCodes : ST_OnError(code)
    \/ ST_OnTimeout
    \/ ST_IngressClose

SpecTap == InitTap /\ [][NextTap]_vars


(***************************************************************************)
(* Http2Client: the session pool.  Call c creates session c at most once.  *)
(* A session is "none" (not created), "open", "closing" (closed or         *)
(* destroyed is set, its 'close' event not yet emitted) or "closed".       *)
(***************************************************************************)
Usable(i) == sess[i] = "open"

\* options.agent of a getSession call: none, or the proxy agent of an account
Agents == {"direct", "proxyP", "proxyQ"}

\* getSession(hostname, {port, agent}) up to its await: reuse the cached
\* session when it is neither closed nor destroyed, else drop the stale entry
\* and start createSession, which connects through the agent
GetSessionStart(c, k, agent) ==
    /\ mode = "pool" /\ gcall[c].pc = "idle"
    /\ IF sessions[k] # 0 /\ Usable(sessions[k])
       THEN /\ gcall' = [gcall EXCEPT ![c] = [pc |-> "done", key |-> k, got |-> sessions[k],
                                              agent |-> agent]]
            /\ UNCHANGED sessions
       ELSE /\ gcall' = [gcall EXCEPT ![c] = [pc |-> "creating", key |-> k, got |-> 0,
                                              agent |-> agent]]
            /\ sessions' = [sessions EXCEPT ![k] = 0]
    /\ UNCHANGED <<restVars, mode, pc, relayVars, nonStreamVars, streamVars, sess, sessKey>>

\* createSession resolved: the listeners are attached and the session is
\* stored under the key, whatever entry the key holds at that moment
CreateSessionDone(c) ==
    /\ mode = "pool" /\ gcall[c].pc = "creating"
    /\ sess' = [sess EXCEPT ![c] = "open"]
    /\ sessKey' = [sessKey EXCEPT ![c] = gcall[c].key]
    /\ sessions' = [sessions EXCEPT ![gcall[c].key] = c]
    /\ gcall' = [gcall EXCEPT ![c].pc = "done", ![c].got = c]
    /\ UNCHANGED <<restVars, mode, pc, relayVars, nonStreamVars, streamVars>>

\* createSession rejected (connect error, proxy refusal, timeout)
CreateSessionFail(c) ==
    /\ mode = "pool" /\ gcall[c].pc = "creating"
    /\ gcall' = [gcall EXCEPT ![c].pc = "failed"]
    /\ UNCHANGED <<restVars, mode, pc, relayVars, nonStreamVars, streamVars, sessions,
                   sess, sessKey>>

\* a session emits 'error' or 'goaway' (it is then closed or destroyed), or
\* its idle timeout closes it: the listeners evict the key they captured
SessionGoaway(i) ==
    /\ mode = "pool" /\ sess[i] = "open"
    /\ sess' = [sess EXCEPT ![i] = "closing"]
    /\ sessions' = [sessions EXCEPT ![sessKey[i]] = 0]
    /\ UNCHANGED <<restVars, mode, pc, relayVars, nonStreamVars, streamVars, sessKey, gcall>>

\* a session emits 'close': its listener evicts the key it captured
SessionClose(i) ==
    /\ mode = "pool" /\ sess[i] \in {"open", "closing"}
    /\ sess' = [sess EXCEPT ![i] = "closed"]
    /\ sessions' = [sessions EXCEPT ![sessKey[i]] = 0]
    /\ UNCHANGED <<restVars, mode, pc, relayVars, nonStreamVars, streamVars, sessKey, gcall>>

\* the cleanup timer finds the entry of k idle: session.close(), delete
Reap(k) ==
    /\ mode = "pool" /\ sessions[k] # 0
    /\ sess' = [sess EXCEPT ![sessions[k]] = IF @ = "open" THEN "closing" ELSE @]
    /\ sessions' = [sessions EXCEPT ![k] = 0]
    /\ UNCHANGED <<restVars, mode, pc, relayVars, nonStreamVars, streamVars, sessKey, gcall>>

InitPool ==
    /\ mode = "pool"
    /\ pc = "start"
    /\ acct = AcctUntouched
    /\ RelayIdle
    /\ PoolIdle
    /\ RestIdle

NextPool ==
    \/ \E c \in 1..NumCalls, k \in SessionKeys, agent \in Agents :
          GetSessionStart(c, k, agent)
    \/ \E c \in 1..NumCalls : CreateSessionDone(c)
    \/ \E c \in 1..NumCalls : CreateSessionFail(c)
    \/ \E i \in 1..NumCalls : SessionGoaway(i)
    \/ \E i \in 1..NumCalls : SessionClose(i)
    \/ \E k \in SessionKeys : Reap(k)

SpecPool == InitPool /\ [][NextPool]_vars


(***************************************************************************)
(* Several requests on one account: the 401 branch and the success branch  *)
(* of relayRequest (and of the streaming handlers), one KV command or one  *)
(* scheduler call per step, since every one of them is awaited.            *)
(***************************************************************************)
AcctStatus == {200, 401}

\* the upstream answers request r
RQ_Response(r, st) ==
    /\ mode = "acct" /\ rq[r].pc = "idle"
    /\ rq' = [rq EXCEPT ![r].pc = IF st = 401 THEN "incr" ELSE "del",
                        ![r].status = st]
    /\ UNCHANGED <<mode, pc, relayVars, nonStreamVars, streamVars, poolVars, resetVars, ret, connVars, prepVars, kv401>>

\* recordUnauthorizedError: redis INCR (a new key has no TTL); when the
\* command fails the catch of recordUnauthorizedError skips the EXPIRE
RQ_Incr(r, ok) ==
    /\ mode = "acct" /\ rq[r].pc = "incr"
    /\ kv401' = IF ok THEN [kv401 EXCEPT !.n = @ + 1] ELSE kv401
    /\ rq' = [rq EXCEPT ![r].pc = IF ok THEN "expire" ELSE "get",
                        ![r].kvFailed = @ \/ ~ok]
    /\ UNCHANGED <<mode, pc, relayVars, nonStreamVars, streamVars, poolVars, resetVars, ret, connVars, prepVars>>

\* recordUnauthorizedError: redis EXPIRE key 300 (no effect on a missing
\* key); a failure of the command is caught and logged
RQ_Expire(r, ok) ==
    /\ mode = "acct" /\ rq[r].pc = "expire"
    /\ kv401' = IF ok THEN [kv401 EXCEPT !.ttl = (kv401.n > 0)] ELSE kv401
    /\ rq' = [rq EXCEPT ![r].pc = "get", ![r].ttlSet = (ok /\ kv401.n > 0),
                        ![r].kvFailed = @ \/ ~ok]
    /\ UNCHANGED <<mode, pc, relayVars, nonStreamVars, streamVars, poolVars, resetVars, ret, connVars, prepVars>>

\* getUnauthorizedErrorCount: redis GET, parseInt(count) || 0; then the
\* threshold test errorCount >= 1
RQ_Get(r) ==
    /\ mode = "acct" /\ rq[r].pc = "get"
    /\ rq' = [rq EXCEPT ![r].count = kv401.n,
                        ![r].pc = IF kv401.n >= 1 THEN "mark" ELSE "done"]
    /\ UNCHANGED <<mode, pc, relayVars, nonStreamVars, streamVars, poolVars, resetVars, ret, connVars, prepVars, kv401>>

\* unifiedClaudeScheduler.markAccountUnauthorized
RQ_Mark(r) ==
    /\ mode = "acct" /\ rq[r].pc = "mark"
    /\ rq' = [rq EXCEPT ![r].pc = "done", ![r].marked = TRUE]
    /\ UNCHANGED <<mode, pc, relayVars, nonStreamVars, streamVars, poolVars, resetVars, ret, connVars, prepVars, kv401>>

\* clearUnauthorizedErrors on a success: redis DEL
RQ_Del(r) ==
    /\ mode = "acct" /\ rq[r].pc = "del"
    /\ kv401' = [n |-> 0, ttl |-> FALSE]
    /\ rq' = [rq EXCEPT ![r].pc = "done"]
    /\ UNCHANGED <<mode, pc, relayVars, nonStreamVars, streamVars, poolVars, resetVars, ret, connVars, prepVars>>

\* the TTL of the key runs out; 300 s do not pass inside one 401 branch
RQ_TtlExpires ==
    /\ mode = "acct" /\ kv401.ttl
    /\ \A r \in 1..NumReqs : rq[r].pc \notin {"expire", "get"}
    /\ kv401' = [n |-> 0, ttl |-> FALSE]
    /\ UNCHANGED <<mode, pc, relayVars, nonStreamVars, streamVars, poolVars, resetVars, ret, connVars, prepVars, rq>>

InitAcct ==
    /\ mode = "acct"
    /\ pc = "start"
    /\ acct = AcctUntouched
    /\ RelayIdle
    /\ PoolIdle
    /\ ResetIdle
    /\ ret = NoResponse
    /\ ConnIdle
    /\ PrepIdle
    /\ rq = [r \in 1..NumReqs |-> [pc |-> "idle", status |-> 0, count |-> 0,
                                   ttlSet |-> FALSE, marked |-> FALSE,
                                   kvFailed |-> FALSE]]
    /\ kv401 \in {[n |-> 0, ttl |-> FALSE], [n |-> 1, ttl |-> TRUE]}

NextAcct ==
    \/ \E r \in 1..NumReqs, st \in AcctStatus : RQ_Response(r, st)
    \/ \E r \in 1..NumReqs, ok \in BOOLEAN : RQ_Incr(r, ok)
    \/ \E r \in 1..NumReqs, ok \in BOOLEAN : RQ_Expire(r, ok)
    \/ \E r \in 1..NumReqs : RQ_Get(r)
    \/ \E r \in 1..NumReqs : RQ_Mark(r)
    \/ \E r \in 1..NumReqs : RQ_Del(r)
    \/ RQ_TtlExpires

SpecAcct == InitAcct /\ [][NextAcct]_vars


(***************************************************************************)
(* Http2Client.createSession: one connection attempt, direct or through a  *)
(* proxy (CONNECT tunnel, then TLS and HTTP/2 on the tunnel socket), with  *)
(* the time since the call counted in ticks.                               *)
(***************************************************************************)
\* ticks modelled, and the value of options.timeout || 30000 in ticks
MaxClock == 6
TimeoutTicks == 2

\* everything but the connection attempt
notConnVars == <<mode, pc, relayVars, nonStreamVars, streamVars, poolVars,
                 acctVars, resetVars, ret, prepVars>>

\* new Promise: resolve / reject settle it once
ConnSettle(c, how) == [c EXCEPT !.result = IF @ = "pending" THEN how ELSE @]

\* session.setTimeout(msecs, cb) arms the session's timer
ArmTimer(c, now) == [c EXCEPT !.armedAt = now]

\* the armed timer has run for the timeout and the session is still there
TimerDue ==
    /\ cs.armedAt # -1 /\ ~cs.sessionClosed
    /\ cs.stage \in {"h2", "tunnelH2"}
    /\ clock - cs.armedAt >= TimeoutTicks

\* direct mode: http2.connect, the 'connect'/'error' listeners, setTimeout
CS_ConnectDirect ==
    /\ mode = "conn" /\ cs.stage = "called" /\ ~cs.proxied
    /\ cs' = ArmTimer([cs EXCEPT !.stage = "h2"], clock)
    /\ UNCHANGED <<notConnVars, clock>>

\* proxied mode: the CONNECT request is sent, with its 'connect' and 'error'
\* listeners
CS_SendConnect ==
    /\ mode = "conn" /\ cs.stage = "called" /\ cs.proxied
    /\ cs' = [cs EXCEPT !.stage = "tunnel"]
    /\ UNCHANGED <<notConnVars, clock>>

\* the proxy answers the CONNECT: a status other than 200 destroys the socket
\* and rejects; 200 starts http2.connect on the tunnel and arms the timer
CS_ProxyAnswers(ok) ==
    /\ mode = "conn" /\ cs.stage = "tunnel"
    /\ cs' = IF ok
             THEN ArmTimer([cs EXCEPT !.stage = "tunnelH2"], clock)
             ELSE ConnSettle([cs EXCEPT !.stage = "refused",
                                        !.socketDestroyed = TRUE], "rejected")
    /\ UNCHANGED <<notConnVars, clock>>

\* the CONNECT request emits 'error'
CS_ConnectReqError ==
    /\ mode = "conn" /\ cs.stage = "tunnel"
    /\ cs' = ConnSettle([cs EXCEPT !.stage = "failed"], "rejected")
    /\ UNCHANGED <<notConnVars, clock>>

\* the session emits 'connect'
CS_SessionConnect ==
    /\ mode = "conn" /\ cs.stage \in {"h2", "tunnelH2"} /\ ~cs.sessionClosed
    /\ ~TimerDue
    /\ cs' = ConnSettle([cs EXCEPT !.stage = "connected"], "resolved")
    /\ UNCHANGED <<notConnVars, clock>>

\* the session emits 'error'
CS_SessionError ==
    /\ mode = "conn" /\ cs.stage \in {"h2", "tunnelH2"} /\ ~cs.sessionClosed
    /\ ~TimerDue
    /\ cs' = ConnSettle([cs EXCEPT !.stage = "failed"], "rejected")
    /\ UNCHANGED <<notConnVars, clock>>

\* the session's timer fires: session.close(), reject with the timeout error
CS_Timeout ==
    /\ mode = "conn" /\ TimerDue
    /\ cs' = ConnSettle([cs EXCEPT !.sessionClosed = TRUE], "timeout")
    /\ UNCHANGED <<notConnVars, clock>>

\* time passes; a timer that is due fires first
CS_Tick ==
    /\ mode = "conn" /\ clock < MaxClock /\ ~TimerDue
    /\ cs.stage # "called"
    /\ clock' = clock + 1
    /\ UNCHANGED <<notConnVars, cs>>

InitConn ==
    /\ mode = "conn"
    /\ pc = "start"
    /\ acct = AcctUntouched
    /\ RelayIdle
    /\ PoolIdle
    /\ AcctIdle
    /\ ResetIdle
    /\ ret = NoResponse
    /\ PrepIdle
    /\ clock = 0
    /\ cs \in {ConnStart(p) : p \in BOOLEAN}

NextConn ==
    \/ CS_ConnectDirect
    \/ CS_SendConnect
    \/ \E ok \in BOOLEAN : CS_ProxyAnswers(ok)
    \/ CS_ConnectReqError
    \/ CS_SessionConnect
    \/ CS_SessionError
    \/ CS_Timeout
    \/ CS_Tick

SpecConn == InitConn /\ [][NextConn]_vars


(***************************************************************************)
(* The body preparer: ClaudeRelayService._processRequestBody and the       *)
(* helpers it calls.  A body is a record of the fields the preparer reads  *)
(* or writes; texts are tokens, identifiers are sequences of parts.  The   *)
(* texts modelled contain neither the security boilerplate nor the         *)
(* system-reminder suffix that the preparer cuts out of them.              *)
(***************************************************************************)
\* max_tokens values tried: 0..MaxTokens, and Absent
MaxTokens == 4
\* the ceiling of the known model in the pricing table
Ceiling == 2
Absent == -1

\* model names: a base name, then an optional ":suffix"
NoModel == [base |-> "absent", suffix |-> "none"]
Models == {NoModel} \cup
          {[base |-> b, suffix |-> x] :
              b \in {"known", "unknown"}, x \in {"none", "thinking", "other"}}

\* metadata.user_id as a sequence of parts; <<>> is the empty string
NoMetadata == <<"no-metadata">>
NoUserId == <<"no-user_id">>
HexIds == {"hex64"}
Uuids == {"uuid36", "random-uuid"}
UserIdOf(client, session) == <<"user_", client, "_account__session_", session>>
UserIds == {NoMetadata, NoUserId, <<>>,
            UserIdOf("hex64", "uuid36"), UserIdOf("HEX64", "uuid36"),
            UserIdOf("hex64", "not-a-uuid"), <<"client-string">>}

\* !body.metadata / !body.metadata.user_id
UserIdFalsy(u) == u \in {NoMetadata, NoUserId, <<>>}

\* userId.match(/^user_[a-f0-9]{64}(_account__session_[a-f0-9-]{36})$/)
MatchesUserId(u) ==
    /\ Len(u) = 4
    /\ u[1] = "user_" /\ u[2] \in HexIds
    /\ u[3] = "_account__session_" /\ u[4] \in Uuids

\* _replaceClientId
ReplaceClientId(u) ==
    IF UserIdFalsy(u) THEN UserIdOf("unifiedClientId", "random-uuid")
    ELSE IF MatchesUserId(u) THEN <<"user_", "unifiedClientId">> \o SubSeq(u, 3, 4)
    ELSE u

\* system texts: the Claude Code prompt, the same with blanks around it, a
\* client text, the operator's prompt, the empty text, blanks only
Texts == {"claude-code", " claude-code ", "client", "operator", "", " "}
Trim(t) == IF t = " claude-code " THEN "claude-code" ELSE IF t = " " THEN "" ELSE t

\* a system block: its type, its text, its cache_control ("none": no
\* cache_control; "ttl": with a ttl; "ttl-falsy": with a ttl of 0 or "")
Block(type, text, cc) == [type |-> type, text |-> text, cc |-> cc]
ClaudeCodeBlock == Block("text", "claude-code", "ephemeral")

\* the system field: absent, a string, a list of blocks, another type
NoSystem == [kind |-> "absent", text |-> "", items |-> <<>>]
SystemString(t) == [kind |-> "string", text |-> t, items |-> <<>>]
SystemList(l) == [kind |-> "list", text |-> "", items |-> l]
OtherSystem == [kind |-> "other", text |-> "", items |-> <<>>]
Systems ==
    {NoSystem, OtherSystem}
    \cup {SystemString(t) : t \in {"claude-code", " claude-code ", "client", ""}}
    \cup {SystemList(l) : l \in
            {<<>>, <<ClaudeCodeBlock>>,
             <<Block("text", "claude-code", "none")>>,
             <<Block("text", "claude-code", "ttl")>>,
             <<Block("text", "client", "none")>>,
             <<Block("text", "", "none")>>,
             <<Block("text", "client", "ttl"), ClaudeCodeBlock>>,
             <<Block("other", "claude-code", "ttl-falsy"), Block("text", "operator", "none")>>}}

\* JavaScript truthiness of body.system
SystemTruthy(sys) ==
    sys.kind \in {"list", "other"} \/ (sys.kind = "string" /\ sys.text # "")

NoThinking == [on |-> FALSE, budget |-> 0]

\* a content block of messages[0]: its own cache_control and the cache_control
\* of a block nested in it (the content list of a tool_result)
ContentBlock(cc, innerCc) == [cc |-> cc, innerCc |-> innerCc]
CacheControls == {"none", "ephemeral", "ttl", "ttl-falsy"}

\* a request body; content is messages[0].content, toolCc the cache_control
\* of tools[0]
Body(model, variantField, maxTokens, topP, temperature, userId, system) ==
    [isNull |-> FALSE, model |-> model, variantField |-> variantField,
     maxTokens |-> maxTokens, topP |-> topP, temperature |-> temperature,
     userId |-> userId, system |-> system, thinking |-> NoThinking,
     content |-> <<>>, toolCc |-> "none"]

PlainBody == Body([base |-> "known", suffix |-> "none"], "absent", Absent,
                  "absent", FALSE, NoMetadata, NoSystem)
NullBody == [PlainBody EXCEPT !.isNull = TRUE]

\* split ":thinking" off the model name and remember it in _modelVariant,
\* unless the body already carries a _modelVariant
SplitVariant(b) ==
    IF b.model.base # "absent" /\ b.model.suffix = "thinking"
    THEN [b EXCEPT !.model.suffix = "none",
                   !.variantField = IF @ = "absent" THEN "thinking" ELSE @]
    ELSE b

\* pricingData[body.model || 'claude-sonnet-4-20250514']: the table has one
\* entry, for the known model, which is also the default model
HasEntry(model) == model.base \in {"known", "absent"} /\ model.suffix = "none"

\* the states of the pricing file: missing, not parseable, or a table whose
\* entry has max_tokens, only max_output_tokens, or neither
Pricings == {"no-file", "unreadable", "max_tokens", "max_output_tokens", "no-limit"}

\* a preparer that never lowers max_tokens
LimitMaxTokens_NoClamp(b, pricing) == b

\* _validateAndLimitMaxTokens
LimitMaxTokens(b, pricing) ==
    IF b.maxTokens = Absent \/ b.maxTokens = 0 THEN b
    ELSE IF pricing \in {"no-file", "unreadable", "no-limit"} THEN b
    ELSE IF ~HasEntry(b.model) THEN b
    ELSE IF b.maxTokens > Ceiling THEN [b EXCEPT !.maxTokens = Ceiling]
    ELSE b

\* _stripTtlFromCacheControl on a block: a truthy ttl is deleted
StripTtlBlock(blk) == IF blk.cc = "ttl" THEN [blk EXCEPT !.cc = "ephemeral"] ELSE blk

StripTtl(b) ==
    LET b1 == IF b.system.kind = "list"
              THEN [b EXCEPT !.system.items = [i \in DOMAIN @ |-> StripTtlBlock(@[i])]]
              ELSE b
    IN  [b1 EXCEPT !.content = [i \in DOMAIN @ |-> StripTtlBlock(@[i])]]

IsClaudeCodeText(blk) == blk.type = "text" /\ blk.text = "claude-code"

\* the Claude Code prompt injection for a request the validator rejected
InjectClaudeCode(sys) ==
    IF ~SystemTruthy(sys) THEN SystemList(<<ClaudeCodeBlock>>)
    ELSE IF sys.kind = "string"
    THEN IF Trim(sys.text) = "claude-code"
         THEN SystemList(<<ClaudeCodeBlock>>)
         ELSE SystemList(<<ClaudeCodeBlock, Block("text", sys.text, "none")>>)
    ELSE IF sys.kind = "list"
    THEN IF sys.items # <<>> /\ IsClaudeCodeText(sys.items[1])
         THEN sys
         ELSE SystemList(<<ClaudeCodeBlock>>
                         \o SelectSeq(sys.items, LAMBDA blk : ~IsClaudeCodeText(blk)))
    ELSE SystemList(<<ClaudeCodeBlock>>)

\* the operator's system prompt is appended; without one a system list with
\* no text in it is deleted
OperatorPrompt(sys, op) ==
    IF Trim(op) # ""
    THEN IF sys.kind = "list"
         THEN IF \E i \in DOMAIN sys.items : sys.items[i].text # "" /\ sys.items[i].text = op
              THEN sys
              ELSE SystemList(Append(sys.items, Block("text", op, "none")))
         ELSE SystemList(<<Block("text", op, "none")>>)
    ELSE IF sys.kind = "list"
            /\ ~(\E i \in DOMAIN sys.items : Trim(sys.items[i].text) # "")
         THEN NoSystem
         ELSE sys

\* if (top_p !== undefined && top_p !== null) delete top_p
DeleteTopP(topP) == IF topP \in {"absent", "null"} THEN topP ELSE "absent"

\* budget_tokens of the thinking variant without max_tokens
DefaultBudget == 31999

ApplyThinking(b) ==
    [b EXCEPT !.thinking =
        [on |-> TRUE,
         budget |-> IF b.maxTokens # Absent /\ b.maxTokens # 0
                    THEN b.maxTokens - 1 ELSE DefaultBudget]]

\* _processRequestBody(body, clientHeaders, account, isCountTokens); the
\* validator's verdict on (body, clientHeaders) is the input realCC
ProcessRequestBody(in) ==
    IF in.body.isNull \/ in.isCountTokens THEN in.body
    ELSE LET b1 == SplitVariant(in.body)
             modelVariant == b1.variantField
             b2 == [b1 EXCEPT !.variantField = "absent"]
             b3 == StripTtl(LimitMaxTokens(b2, in.pricing))
             b4 == IF ~in.realCC
                   THEN [b3 EXCEPT !.system = InjectClaudeCode(@)] ELSE b3
             b5 == [b4 EXCEPT !.system = OperatorPrompt(@, in.opPrompt),
                              !.topP = DeleteTopP(@)]
             b6 == IF in.unified
                   THEN [b5 EXCEPT !.userId = ReplaceClientId(@)] ELSE b5
         IN  IF modelVariant = "thinking" THEN ApplyThinking(b6) ELSE b6

\* the arguments of a call, the validator's verdict and the configuration
Input(body, isCountTokens, unified, realCC, opPrompt, pricing) ==
    [body |-> body, isCountTokens |-> isCountTokens, unified |-> unified,
     realCC |-> realCC, opPrompt |-> opPrompt, pricing |-> pricing]

\* the calls tried: every model, variant, max_tokens and pricing file; every
\* top_p, temperature, user_id and account setting; every system field,
\* validator verdict and operator prompt; every cache_control of a message
\* block, of a block nested in it and of a tool; each for both request kinds
PrepInputs ==
    {Input(NullBody, FALSE, FALSE, TRUE, "", "max_tokens")}
    \cup {Input([PlainBody EXCEPT !.model = m, !.variantField = v, !.maxTokens = t],
                ct, FALSE, TRUE, "", pr) :
             m \in Models, v \in {"absent", "thinking", "other"},
             t \in {Absent} \cup 0..MaxTokens, ct \in BOOLEAN, pr \in Pricings}
    \cup {Input([PlainBody EXCEPT !.topP = tp, !.temperature = te, !.userId = u],
                ct, un, TRUE, "", "max_tokens") :
             tp \in {"absent", "null", "number"}, te \in BOOLEAN, u \in UserIds,
             ct \in BOOLEAN, un \in BOOLEAN}
    \cup {Input([PlainBody EXCEPT !.system = sys], ct, FALSE, cc, op, "max_tokens") :
             sys \in Systems, ct \in BOOLEAN, cc \in BOOLEAN,
             op \in {"", " ", "operator"}}
    \cup {Input([PlainBody EXCEPT !.content = <<ContentBlock(c1, c2)>>, !.toolCc = c3],
                ct, FALSE, TRUE, "", "max_tokens") :
             c1 \in CacheControls, c2 \in CacheControls, c3 \in CacheControls,
             ct \in BOOLEAN}

\* the relay calls _processRequestBody
PR_Prepare ==
    /\ mode = "prep" /\ ~outp.done
    /\ outp' = [done |-> TRUE, body |-> ProcessRequestBody(inp)]
    /\ UNCHANGED <<mode, pc, relayVars, nonStreamVars, streamVars, poolVars,
                   acctVars, resetVars, ret, connVars, inp>>

InitPrep ==
    /\ mode = "prep"
    /\ pc = "start"
    /\ acct = AcctUntouched
    /\ RelayIdle
    /\ PoolIdle
    /\ AcctIdle
    /\ ResetIdle
    /\ ret = NoResponse
    /\ ConnIdle
    /\ inp \in PrepInputs
    /\ outp = NotPrepared

NextPrep == PR_Prepare

SpecPrep == InitPrep /\ [][NextPrep]_vars

(***************************************************************************)
(* BetaHeaderManager.getBetaHeader / buildBetaHeader and the request path  *)
(* of _makeClaudeRequest.  A header value is the sequence of the segments  *)
(* between its commas; inp holds the arguments, outp the headers and path  *)
(* handed to the HTTP/2 client.                                            *)
(***************************************************************************)
\* segments of the configured beta header tried: 0..MaxSegs
MaxSegs == 2

notPrepVars == <<mode, pc, relayVars, nonStreamVars, streamVars, poolVars,
                 acctVars, resetVars, ret, connVars>>

\* the state of everything but inp and outp, untouched by the helpers below
HelperIdle ==
    /\ pc = "start"
    /\ acct = AcctUntouched
    /\ RelayIdle /\ PoolIdle /\ AcctIdle /\ ResetIdle
    /\ ret = NoResponse
    /\ ConnIdle

FEATURE_ORDER ==
    <<"claude-code-20250219", "oauth-2025-04-20", "interleaved-thinking-2025-05-14",
      "fine-grained-tool-streaming-2025-05-14", "context-1m-2025-08-07",
      "token-counting-2024-11-01">>

Range(q) == {q[i] : i \in DOMAIN q}

\* models: in the interleaved-thinking list; matching /sonnet/i only; neither
BetaModels == {"claude-sonnet-4-20250514", "claude-3-5-sonnet-20241022",
               "claude-3-5-haiku-20241022", "unknown"}

shouldIncludeFeature(feature, model) ==
    IF feature = "interleaved-thinking-2025-05-14"
    THEN model = "claude-sonnet-4-20250514"
    ELSE IF feature = "claude-code-20250219"
    THEN model \in {"claude-sonnet-4-20250514", "claude-3-5-sonnet-20241022"}
    ELSE TRUE

\* the segments a header may hold between its commas, and feature.trim()
Segments == Range(FEATURE_ORDER) \cup {"custom-2025", "another-2025", " oauth-2025-04-20", "", " "}
TrimSegment(seg) ==
    IF seg = " oauth-2025-04-20" THEN "oauth-2025-04-20"
    ELSE IF seg = " " THEN "" ELSE seg

\* Set.add: a JavaScript Set keeps insertion order and holds a value once
SetAdd(set, x) == IF x \in Range(set) THEN set ELSE Append(set, x)

\* baseBetaHeader.split(',').forEach(...)
RECURSIVE AddBaseFeatures(_, _, _)
AddBaseFeatures(set, segs, model) ==
    IF segs = <<>> THEN set
    ELSE LET trimmed == TrimSegment(Head(segs))
         IN  AddBaseFeatures(
                 IF trimmed # "" /\ shouldIncludeFeature(trimmed, model)
                 THEN SetAdd(set, trimmed) ELSE set,
                 Tail(segs), model)

\* the features kept in insertion order, as a preparer without the fixed order
\* would list them
OrderFeatures_Insertion(features) == features

\* the features of FEATURE_ORDER first, in that order, then the others
OrderFeatures(features) ==
    SelectSeq(FEATURE_ORDER, LAMBDA f : f \in Range(features))
        \o SelectSeq(features, LAMBDA f : f \notin Range(FEATURE_ORDER))

\* the client's anthropic-beta values tried, and includes('context-1m-2025-08-07')
ClientBetas == {"", "context-1m-2025-08-07", "other-beta,xcontext-1m-2025-08-07", "other-beta"}
IncludesContext1m(c) == c \in {"context-1m-2025-08-07", "other-beta,xcontext-1m-2025-08-07"}

\* requestOptions.customPath, customPath.includes('count_tokens'), and the
\* pathname of new URL(customPath, base), which drops a query string
CustomPaths == {"", "/v1/messages/count_tokens", "/v1/messages/count_tokens?beta=true"}
IncludesCountTokens(cp) == cp # ""
Pathname(cp) == IF cp = "" THEN "/v1/messages" ELSE "/v1/messages/count_tokens"

\* buildBetaHeader: the ordered features; the empty list stands for null
buildBetaHeader(model, base, client, customPath) ==
    LET f1 == AddBaseFeatures(<<>>, base, model)
        f2 == IF IncludesContext1m(client) THEN SetAdd(f1, "context-1m-2025-08-07") ELSE f1
        f3 == IF IncludesCountTokens(customPath)
              THEN SetAdd(f2, "token-counting-2024-11-01") ELSE f2
    IN  OrderFeatures(f3)

\* _makeClaudeRequest: the anthropic-beta header and the request path
MakeRequestHead(in) ==
    LET betaHeader == buildBetaHeader(in.model, in.base, in.client, in.customPath)
    IN  [hasBeta |-> betaHeader # <<>>,
         beta |-> betaHeader,
         pathname |-> Pathname(in.customPath),
         query |-> IF betaHeader # <<>> THEN "?beta=true" ELSE ""]

RECURSIVE SeqsUpTo(_, _)
SeqsUpTo(S, n) ==
    IF n = 0 THEN {<<>>}
    ELSE LET shorter == SeqsUpTo(S, n - 1)
         IN  shorter \cup {Append(q, x) : q \in shorter, x \in S}

BetaInputs ==
    [model : BetaModels, base : SeqsUpTo(Segments, MaxSegs),
     client : ClientBetas, customPath : CustomPaths]

BH_MakeRequest ==
    /\ mode = "beta" /\ ~outp.done
    /\ outp' = [done |-> TRUE, body |-> MakeRequestHead(inp)]
    /\ UNCHANGED <<notPrepVars, inp>>

InitBeta ==
    /\ mode = "beta"
    /\ HelperIdle
    /\ inp \in BetaInputs
    /\ outp = NotPrepared

NextBeta == BH_MakeRequest

SpecBeta == InitBeta /\ [][NextBeta]_vars

(***************************************************************************)
(* ClaudeRelayService._retryRequest(requestFunc, maxRetries = 3).  inp     *)
(* holds the argument maxRetries, outp the progress of the call: the loop  *)
(* counter i, the invocations of requestFunc with their outcomes, the      *)
(* delays slept, lastError and the way the call settled.                   *)
(***************************************************************************)
\* maxRetries values tried: 0..MaxRetries, and the default
MaxRetries == 3
DefaultRetries == 3

\* what requestFunc may do: resolve with a value or reject with an error
FuncResults == {"value-a", "value-b"}
FuncErrors == {"error-a", "error-b"}

RECURSIVE Pow2(_)
Pow2(n) == IF n = 0 THEN 1 ELSE 2 * Pow2(n - 1)

\* a helper that waits the same second after every failure
RetryDelay_Fixed(i) == 1000

\* const delay = Math.pow(2, i) * 1000
RetryDelay(i) == Pow2(i) * 1000

\* maxRetries = 3 when the caller passes none
Limit(in) == IF in.given THEN in.maxRetries ELSE DefaultRetries

RetryStart ==
    [done |-> FALSE,
     body |-> [i |-> 0, at |-> "loop", outcomes |-> <<>>, delays |-> <<>>,
               lastError |-> "undefined", settled |-> "pending", value |-> "none"]]

\* for (...; i < maxRetries; ...) { return await requestFunc() }
RT_CallResolves(v) ==
    /\ mode = "retry" /\ ~outp.done /\ outp.body.at = "loop"
    /\ outp.body.i < Limit(inp)
    /\ outp' = [done |-> TRUE,
                body |-> [outp.body EXCEPT !.outcomes = Append(@, v),
                                           !.settled = "returned", !.value = v]]
    /\ UNCHANGED <<notPrepVars, inp>>

\* catch (error) { lastError = error; if (i < maxRetries - 1) sleep(delay) }
RT_CallRejects(e) ==
    /\ mode = "retry" /\ ~outp.done /\ outp.body.at = "loop"
    /\ outp.body.i < Limit(inp)
    /\ outp' = [outp EXCEPT
            !.body.outcomes = Append(@, e),
            !.body.lastError = e,
            !.body.delays = IF outp.body.i < Limit(inp) - 1
                            THEN Append(@, RetryDelay(outp.body.i)) ELSE @,
            !.body.at = IF outp.body.i < Limit(inp) - 1 THEN "sleeping" ELSE "loop",
            !.body.i = IF outp.body.i < Limit(inp) - 1 THEN @ ELSE @ + 1]
    /\ UNCHANGED <<notPrepVars, inp>>

\* the timer of the delay fires: i++
RT_Wake ==
    /\ mode = "retry" /\ ~outp.done /\ outp.body.at = "sleeping"
    /\ outp' = [outp EXCEPT !.body.at = "loop", !.body.i = @ + 1]
    /\ UNCHANGED <<notPrepVars, inp>>

\* the loop is left: throw lastError
RT_Throw ==
    /\ mode = "retry" /\ ~outp.done /\ outp.body.at = "loop"
    /\ ~(outp.body.i < Limit(inp))
    /\ outp' = [done |-> TRUE,
                body |-> [outp.body EXCEPT !.settled = "threw", !.value = outp.body.lastError]]
    /\ UNCHANGED <<notPrepVars, inp>>

InitRetry ==
    /\ mode = "retry"
    /\ HelperIdle
    /\ inp \in {[given |-> FALSE, maxRetries |-> 0]}
                 \cup [given : {TRUE}, maxRetries : 0..MaxRetries]
    /\ outp = RetryStart

NextRetry ==
    \/ \E v \in FuncResults : RT_CallResolves(v)
    \/ \E e \in FuncErrors : RT_CallRejects(e)
    \/ RT_Wake
    \/ RT_Throw

SpecRetry == InitRetry /\ [][NextRetry]_vars

(***************************************************************************)
(* ClaudeRelayService._handleServerError(accountId, statusCode, ...),      *)
(* called again and again for one account.  inp is the statusCode of the   *)
(* current call; outp holds the account (its server-error counter, its     *)
(* scheduling flags and sticky session), the handler's position, the       *)
(* count it read and the alerts it logged.                                 *)
(***************************************************************************)
\* calls of the handler for the account: 0..MaxErrors
MaxErrors == 5
ServerErrorThreshold == 3

\* the scheduling state of an account that is in service
InService == [unauthorized |-> FALSE, blocked |-> FALSE, overloaded |-> FALSE,
              rateLimited |-> FALSE, stickySession |-> TRUE]

ServerErrorStart ==
    [done |-> FALSE,
     body |-> [at |-> "idle", count |-> 0, errorCount |-> 0, alerts |-> 0,
               flags |-> InService, returned |-> 0, thrown |-> 0]]

\* an account taken out of service once the threshold is exceeded
OverThreshold_AutoStop(b) ==
    IF b.errorCount > ServerErrorThreshold
    THEN [b EXCEPT !.alerts = @ + 1, !.flags.blocked = TRUE,
                   !.flags.stickySession = FALSE]
    ELSE b

\* if (errorCount > threshold) logger.error(...): an alert, nothing else
OverThreshold(b) ==
    IF b.errorCount > ServerErrorThreshold THEN [b EXCEPT !.alerts = @ + 1] ELSE b

\* the relay calls _handleServerError for a 5xx response or a timeout (504)
SE_Call(st) ==
    /\ mode = "srv" /\ outp.body.at = "idle" /\ outp.body.returned < MaxErrors
    /\ inp' = st
    /\ outp' = [outp EXCEPT !.body.at = "record"]
    /\ UNCHANGED notPrepVars

\* await claudeAccountService.recordServerError(accountId, statusCode)
SE_Record(ok) ==
    /\ mode = "srv" /\ outp.body.at = "record"
    /\ outp' = IF ok THEN [outp EXCEPT !.body.count = @ + 1, !.body.at = "get"]
               ELSE [outp EXCEPT !.body.at = "caught"]
    /\ UNCHANGED <<notPrepVars, inp>>

\* const errorCount = await claudeAccountService.getServerErrorCount(accountId)
SE_Get(ok) ==
    /\ mode = "srv" /\ outp.body.at = "get"
    /\ outp' = IF ok THEN [outp EXCEPT !.body.errorCount = outp.body.count,
                                       !.body.at = "threshold"]
               ELSE [outp EXCEPT !.body.at = "caught"]
    /\ UNCHANGED <<notPrepVars, inp>>

\* the threshold test, then the handler returns
SE_Threshold ==
    /\ mode = "srv" /\ outp.body.at = "threshold"
    /\ outp' = [outp EXCEPT !.body = [OverThreshold(@) EXCEPT !.at = "idle",
                                                            !.returned = @ + 1]]
    /\ UNCHANGED <<notPrepVars, inp>>

\* catch (handlingError) { logger.error(...) }, then the handler returns
SE_Catch ==
    /\ mode = "srv" /\ outp.body.at = "caught"
    /\ outp' = [outp EXCEPT !.body.at = "idle", !.body.returned = @ + 1]
    /\ UNCHANGED <<notPrepVars, inp>>

InitSrv ==
    /\ mode = "srv"
    /\ HelperIdle
    /\ inp = 0
    /\ outp = ServerErrorStart

NextSrv ==
    \/ \E st \in {500, 503, 504} : SE_Call(st)
    \/ \E ok \in BOOLEAN : SE_Record(ok)
    \/ \E ok \in BOOLEAN : SE_Get(ok)
    \/ SE_Threshold
    \/ SE_Catch

SpecSrv == InitSrv /\ [][NextSrv]_vars

(***************************************************************************)
(* ProxyHelper.createProxyAgent and validateProxyConfig.  A descriptor is  *)
(* an object or a JSON string; its port is missing, a number or a string,  *)
(* kept as its decimal text.  inp is the descriptor of the last call, outp *)
(* holds ProxyHelper.agentCache and what the call returned.                *)
(***************************************************************************)
\* agents in the cache: 0..MaxAgents
MaxAgents == 2

ProxyTypes == {"missing", "socks5", "http", "https", "socks4"}
ProxyHosts == {"missing", "proxy.example"}

\* proxy.port: undefined, a number, or a string
NoPort == [kind |-> "missing", text |-> <<>>]
PortNumber(t) == [kind |-> "number", text |-> t]
PortString(t) == [kind |-> "string", text |-> t]
ProxyPorts ==
    {NoPort, PortNumber(<<"0">>), PortNumber(<<"1">>), PortNumber(<<"6", "5", "5", "3", "5">>),
     PortNumber(<<"6", "5", "5", "3", "6">>), PortString(<<>>), PortString(<<"0">>),
     PortString(<<"8", "0">>), PortString(<<"6", "5", "5", "3", "6">>),
     PortString(<<"a">>)}

\* !proxy.port: undefined, the number 0 and the empty string are falsy
PortFalsy(p) ==
    p.kind = "missing" \/ (p.kind = "number" /\ p.text = <<"0">>)
        \/ (p.kind = "string" /\ p.text = <<>>)

\* the descriptors tried; json: given as a JSON string; a string that is not
\* JSON (or is the JSON of a non-object) is BadJson
Descriptors ==
    [form : {"object", "json"}, type : ProxyTypes, host : ProxyHosts, port : ProxyPorts]
BadJson == [form |-> "bad-json", type |-> "missing", host |-> "missing", port |-> NoPort]

\* createProxyAgent returns null; an agent is named by its cache key
NoAgent == <<>>

\* validateProxyConfig
validateProxyConfig(d) ==
    IF d.form = "bad-json" THEN FALSE
    ELSE IF d.type = "missing" \/ d.host = "missing" \/ PortFalsy(d.port) THEN FALSE
    ELSE IF d.type \notin {"socks5", "http", "https"} THEN FALSE
    ELSE LET port == ParseInt(d.port.text)
         IN  ~(port.kind = "NaN" \/ port.v < 1 \/ port.v > 65535)

\* `${proxy.type}://${proxy.host}:${proxy.port}:${proxy.username || ''}`
CacheKey(d) == <<d.type, d.host, d.port.text>>

\* the proxy URL handed to the agent constructor is a valid URL: its port is
\* all digits and at most 65535
UrlValid(d) ==
    /\ d.port.text # <<>>
    /\ DigitPrefix(d.port.text) = d.port.text
    /\ DecimalValue(d.port.text) <= 65535

\* a helper that validates the descriptor before anything else
createProxyAgent_Validating(d, cache, ctorThrows) ==
    IF validateProxyConfig(d) THEN [agent |-> CacheKey(d), cache |-> cache \cup {CacheKey(d)}]
    ELSE [agent |-> NoAgent, cache |-> cache]

\* createProxyAgent; ctorThrows: the agent constructor of the proxy library
\* throws on a URL that is not valid (it may also accept it)
createProxyAgent(d, cache, ctorThrows) ==
    IF d.form = "bad-json" THEN [agent |-> NoAgent, cache |-> cache]
    ELSE IF d.type = "missing" \/ d.host = "missing" \/ PortFalsy(d.port)
    THEN [agent |-> NoAgent, cache |-> cache]
    ELSE IF CacheKey(d) \in cache THEN [agent |-> CacheKey(d), cache |-> cache]
    ELSE IF d.type \notin {"socks5", "http", "https"} THEN [agent |-> NoAgent, cache |-> cache]
    ELSE IF ~UrlValid(d) /\ ctorThrows THEN [agent |-> NoAgent, cache |-> cache]
    ELSE [agent |-> CacheKey(d), cache |-> cache \cup {CacheKey(d)}]

ProxyStart == [done |-> FALSE, body |-> [cache |-> {}, before |-> {}, agent |-> NoAgent]]

PX_Create(d, ctorThrows) ==
    /\ mode = "proxy"
    /\ Cardinality(outp.body.cache) < MaxAgents
    /\ inp' = d
    /\ LET r == createProxyAgent(d, outp.body.cache, ctorThrows)
       IN  outp' = [done |-> TRUE,
                    body |-> [cache |-> r.cache, before |-> outp.body.cache,
                              agent |-> r.agent]]
    /\ UNCHANGED notPrepVars

InitProxy ==
    /\ mode = "proxy"
    /\ HelperIdle
    /\ inp = BadJson
    /\ outp = ProxyStart

NextProxy ==
    \E d \in Descriptors \cup {BadJson}, ctorThrows \in BOOLEAN : PX_Create(d, ctorThrows)

SpecProxy == InitProxy /\ [][NextProxy]_vars


(***************************************************************************)
(* The usage tap of the streaming relay on a stream of several lines: the  *)
(* complete lines the main 'data' handler parses, one after the other,     *)
(* then the main 'end' handler's merge.  inp holds the lines still to      *)
(* come; outp holds currentUsageData, allUsageData, the rate-limit flag,   *)
(* the input tokens the message_start events carried so far and the        *)
(* usageCallback invocations.                                              *)
(***************************************************************************)
\* complete lines of one stream: 0..MaxLines
MaxLines == 4

\* the lines of the stream: message_start, message_delta, error event, other
UsageLines == {<<"S">>, <<"D">>, <<"E">>, <<"a">>}

UsageStart ==
    [done |-> FALSE,
     body |-> [cur |-> NoUsage, all |-> <<>>, rld |-> FALSE,
               starts |-> 0, startTokens |-> 0, log |-> <<>>]]

\* one complete line goes through the usage parsing of the 'data' handler
US_Line ==
    /\ mode = "usage" /\ ~outp.done /\ inp # <<>>
    /\ LET b == outp.body
           u == ProcessLine([cur |-> b.cur, all |-> b.all, rld |-> b.rld], inp[1])
           isStart == inp[1] = <<"S">>
       IN  outp' = [outp EXCEPT !.body.cur = u.cur, !.body.all = u.all,
                                !.body.rld = u.rld,
                                !.body.starts = IF isStart THEN @ + 1 ELSE @,
                                !.body.startTokens =
                                    IF isStart THEN @ + u.cur.in ELSE @]
    /\ inp' = Tail(inp)
    /\ UNCHANGED notPrepVars

\* the stream ends: the 'end' handler pushes the unfinished record and merges
US_End ==
    /\ mode = "usage" /\ ~outp.done /\ inp = <<>>
    /\ LET all == FinishUsage(outp.body.cur, outp.body.all)
       IN  outp' = [done |-> TRUE,
                    body |-> [outp.body EXCEPT !.all = all,
                                               !.log = UsageCallbacks(@, all)]]
    /\ UNCHANGED <<notPrepVars, inp>>

InitUsage ==
    /\ mode = "usage"
    /\ HelperIdle
    /\ inp \in SeqsUpTo(UsageLines, MaxLines)
    /\ outp = UsageStart

NextUsage ==
    \/ US_Line
    \/ US_End

SpecUsage == InitUsage /\ [][NextUsage]_vars


(***************************************************************************)
(* SpecStream: one streaming request answered 200 whose ingress stays      *)
(* open, with every sequence of at most MaxStreamBytes bytes over          *)
(* StreamBytes in every chunking, without and with a streamTransformer.    *)
(* outp.body tells whether the caller supplied a transformer; inp is the   *)
(* sequence of the chunks received so far.                                 *)
(***************************************************************************)
\* total number of bytes the upstream sends on one stream in SpecStream
MaxStreamBytes == 3

StreamBytes == {"S", "D", "E", "nl", "L", "C"}

StreamChunks == UNION {[1..k -> StreamBytes] : k \in 1..MaxStreamBytes}

\* what streamTransformer(text) returns: a string, a falsy value (null,
\* undefined, ''), or a truthy value that is neither a string nor a Buffer
TransformerReturns == {"text", "falsy", "object"}

\* the text a transformer returns
TransformedText == <<"t">>

NoTransformer == [done |-> FALSE, body |-> "none"]
WithTransformer == [done |-> FALSE, body |-> "transformer"]

\* responseStream.write(transformed) throws for a chunk that is neither a
\* string nor a Buffer
WriteThrows(tr) == tr = "object"

\* the two writes of the catch block of the main 'data' handler
IngProcessingError(g) ==
    IF g.destroyed THEN g
    ELSE IngWrite(IngWrite(g, <<"event: error">>), <<"processing-error">>)

\* a chunk arrives at the main 'data' handler of a request with a
\* streamTransformer that returns tr for the lines of this chunk
ST_OnDataTransformed(chunk, tr) ==
    /\ mode = "stream" /\ pc = "resp" /\ ~upClosed
    /\ outp = WithTransformer
    /\ Len(upstream) + Len(chunk) <= MaxStreamBytes
    /\ WellFormedPrefix(upstream \o chunk)
    /\ upstream' = upstream \o chunk
    /\ inp' = Append(inp, chunk)
    /\ LET chunkStr == Decode(chunk)
           ls == SplitLines(buffer \o chunkStr)
           complete == Front(ls)
           forwards == Len(complete) > 0 /\ ~ing.destroyed
           threw == forwards /\ tr # "falsy" /\ WriteThrows(tr)
           u0 == [cur |-> cur, all |-> allUsage, rld |-> rld]
           u == IF threw THEN u0 ELSE ProcessLines(u0, complete)
       IN  /\ buffer' = Last(ls)
           /\ ing' = IF ~forwards \/ tr = "falsy" THEN ing
                     ELSE IF threw THEN IngProcessingError(ing)
                     ELSE IngWrite(ing, TransformedText)
           /\ cur' = u.cur
           /\ allUsage' = u.all
           /\ rld' = u.rld
           /\ errorData' = IF errListeners THEN errorData \o chunkStr ELSE errorData
    /\ UNCHANGED <<acctVars, resetVars, ret, connVars, outp, mode, pc, relayVars,
                   nonStreamVars, errListeners, usageLog, pcM, pcH, upClosed, poolVars>>

\* the try block of the main 'end' handler with a streamTransformer: a write
\* that throws skips responseStream.end()
FlushAndEndTransformed(g, buf, tr) ==
    LET flushes == TrimNonEmpty(buf) /\ ~g.destroyed
        threw == flushes /\ tr # "falsy" /\ WriteThrows(tr)
        w == IF flushes /\ tr = "text" THEN IngWrite(g, TransformedText) ELSE g
    IN  IF threw THEN g
        ELSE IF ~w.destroyed THEN IngEnd(w) ELSE w

\* the upstream stream of a request with a streamTransformer ends
ST_OnEndTransformed(tr) ==
    /\ mode = "stream" /\ pc = "resp"
    /\ outp = WithTransformer
    /\ WellFormed(upstream)
    /\ pc' = "ended"
    /\ LET all == FinishUsage(cur, allUsage)
           g1 == FlushAndEndTransformed(ing, buffer, tr)
           awaits == MainEndAwaits(status, hdr5h, rld)
           p1 == IF awaits THEN promise ELSE Settle(promise, "resolved")
       IN  /\ allUsage' = all
           /\ usageLog' = UsageCallbacks(usageLog, all)
           /\ pcM' = IF awaits THEN "await" ELSE "done"
           /\ ing' = IF errListeners THEN IngErrorFrame(g1, "api-error") ELSE g1
           /\ promise' = IF errListeners THEN Settle(p1, "rejected") ELSE p1
    /\ UNCHANGED <<restVars, mode, status, hdr5h, acct, calls, failed, nonStreamVars,
                   errListeners, upstream, buffer, cur, rld, errorData, pcH,
                   upClosed, poolVars>>

InitStream ==
    /\ mode = "stream"
    /\ pc = "start"
    /\ acct = AcctUntouched
    /\ RelayIdle
    /\ PoolIdle
    /\ AcctIdle /\ ResetIdle /\ ret = NoResponse /\ ConnIdle
    /\ inp = <<>>
    /\ outp \in {NoTransformer, WithTransformer}

NextStream ==
    \/ ST_Open
    \/ ST_OnResponse(200, FALSE, NoHeader)
    \/ \E chunk \in StreamChunks :
          /\ outp = NoTransformer
          /\ ST_OnData(chunk, MaxStreamBytes)
    \/ \E chunk \in StreamChunks, tr \in TransformerReturns :
          ST_OnDataTransformed(chunk, tr)
    \/ outp = NoTransformer /\ ST_OnEnd
    \/ \E tr \in TransformerReturns : ST_OnEndTransformed(tr)
    \/ ST_MainEndResume("none", AcctClean)

SpecStream == InitStream /\ [][NextStream]_vars


(***************************************************************************)
(* ClaudeRelayService.captureAndGetUnifiedUserAgent, called concurrently   *)
(* for accounts with useUnifiedUserAgent.  A version is the sequence of    *)
(* the numeric segments of claude-cli/<version>; <<>> stands for no        *)
(* Claude Code User-Agent (in a call) and for no cached value (in the KV   *)
(* store).  outp.body holds the cached value and the calls.                *)
(***************************************************************************)
\* concurrent captureAndGetUnifiedUserAgent calls
NumCaptures == 2
\* largest segment of a version number
MaxSegment == 1

NoUA == <<>>

UaVersions == UNION {[1..n -> 0..MaxSegment] : n \in 1..2}

\* parseInt(arr[i] || 0, 10)
Segment(v, i) == IF i <= Len(v) THEN v[i] ELSE 0

\* compareSemanticVersions: 1, -1 or 0, segment by segment
RECURSIVE CompareFrom(_, _, _)
CompareFrom(v1, v2, i) ==
    IF i > (IF Len(v1) > Len(v2) THEN Len(v1) ELSE Len(v2)) THEN 0
    ELSE IF Segment(v1, i) > Segment(v2, i) THEN 1
    ELSE IF Segment(v1, i) < Segment(v2, i) THEN -1
    ELSE CompareFrom(v1, v2, i + 1)

compareSemanticVersions(v1, v2) == CompareFrom(v1, v2, 1)

\* compareClaudeCodeVersions: the new User-Agent is newer than the cached one
compareClaudeCodeVersions(newUA, cachedUA) == compareSemanticVersions(newUA, cachedUA) > 0

CaptureStart ==
    [done |-> FALSE,
     body |-> [stored |-> NoUA,
               calls |-> [c \in 1..NumCaptures |->
                             [pc |-> "idle", clientUA |-> NoUA, cachedUA |-> NoUA]]]]

\* the call reads the cached value: await redis.client.get(CACHE_KEY)
UA_Get(c, clientUA) ==
    /\ mode = "ua" /\ outp.body.calls[c].pc = "idle"
    /\ outp' = [outp EXCEPT !.body.calls[c] =
                   [pc |-> "read", clientUA |-> clientUA, cachedUA |-> outp.body.stored]]
    /\ UNCHANGED <<notPrepVars, inp>>

\* the call decides on the value it read and writes: setex of the client's
\* User-Agent, or refresh of the TTL, or nothing
UA_Write(c) ==
    /\ mode = "ua" /\ outp.body.calls[c].pc = "read"
    /\ LET call == outp.body.calls[c]
           writes == /\ call.clientUA # NoUA
                     /\ \/ call.cachedUA = NoUA
                        \/ compareClaudeCodeVersions(call.clientUA, call.cachedUA)
       IN  outp' = [outp EXCEPT
                       !.body.stored = IF writes THEN call.clientUA ELSE @,
                       !.body.calls[c].pc = "done",
                       !.body.calls[c].cachedUA = IF writes THEN call.clientUA ELSE @]
    /\ UNCHANGED <<notPrepVars, inp>>

InitCapture ==
    /\ mode = "ua"
    /\ HelperIdle
    /\ inp = "none"
    /\ outp = CaptureStart

NextCapture ==
    \/ \E c \in 1..NumCaptures, clientUA \in UaVersions \cup {NoUA} : UA_Get(c, clientUA)
    \/ \E c \in 1..NumCaptures : UA_Write(c)

SpecCapture == InitCapture /\ [][NextCapture]_vars


(***************************************************************************)
(* ProxyHelper.createProxyAgent on descriptors with credentials: valid     *)
(* type and port, two hosts, every username and password.  An agent is the *)
(* record of what it was built from; the cache maps keys to agents and is  *)
(* held as a set of [key, agent] entries.  inp is the descriptor of the    *)
(* last call, outp.body the cache and the agent returned.                  *)
(***************************************************************************)
\* agents the cache may hold in SpecProxyAuth
MaxCached == 2

\* proxy.username, proxy.password: "" stands for absent or empty
Usernames == {"", "alice", "bob"}
Passwords == {"", "pw1", "pw2"}

AuthDescriptors ==
    [type : {"socks5"}, host : {"proxy.example", "proxy2.example"},
     port : {PortNumber(<<"1">>)}, username : Usernames, password : Passwords]

\* `${proxy.type}://${proxy.host}:${proxy.port}:${proxy.username || ''}`
AuthCacheKey(d) == <<d.type, d.host, d.port.text, d.username>>

\* proxy.username && proxy.password ? `${username}:${password}@` : ''
AuthOf(d) ==
    IF d.username # "" /\ d.password # "" THEN <<d.username, d.password>> ELSE <<>>

\* new SocksProxyAgent(`socks5h://${auth}${host}:${port}`, ...)
NewAgent(d) == [type |-> d.type, host |-> d.host, port |-> d.port.text, auth |-> AuthOf(d)]

NoAuthAgent == [type |-> "none", host |-> "none", port |-> <<>>, auth |-> <<>>]

\* createProxyAgent for a descriptor that passes the field checks: the cached
\* agent on a hit, else a new agent, which is cached
createProxyAgentAuth(d, cache) ==
    IF \E e \in cache : e.key = AuthCacheKey(d)
    THEN [agent |-> (CHOOSE e \in cache : e.key = AuthCacheKey(d)).agent, cache |-> cache]
    ELSE [agent |-> NewAgent(d),
          cache |-> cache \cup {[key |-> AuthCacheKey(d), agent |-> NewAgent(d)]}]

ProxyAuthStart == [done |-> FALSE, body |-> [cache |-> {}, agent |-> NoAuthAgent, hit |-> FALSE]]

PA_Create(d) ==
    /\ mode = "proxyauth"
    /\ Cardinality(outp.body.cache) < MaxCached
    /\ inp' = d
    /\ LET r == createProxyAgentAuth(d, outp.body.cache)
       IN  outp' = [done |-> TRUE,
                    body |-> [cache |-> r.cache, agent |-> r.agent,
                              hit |-> (r.cache = outp.body.cache)]]
    /\ UNCHANGED notPrepVars

InitProxyAuth ==
    /\ mode = "proxyauth"
    /\ HelperIdle
    /\ inp \in AuthDescriptors
    /\ outp = ProxyAuthStart

NextProxyAuth == \E d \in AuthDescriptors : PA_Create(d)

SpecProxyAuth == InitProxyAuth /\ [][NextProxyAuth]_vars


(***************************************************************************)
(* Properties.                                                             *)
(***************************************************************************)
Is2xx(st) == st >= 200 /\ st <= 299
Non2xx(st) == st # 0 /\ ~Is2xx(st)
CallSet == {calls[i] : i \in DOMAIN calls}
EscalationCount == Cardinality({i \in DOMAIN calls : calls[i] \in Escalations})

\* every handler of the response has run to its end
HandlingComplete ==
    \/ mode = "nonstream" /\ pc = "done" /\ status # 0
    \/ mode = "stream" /\ pc = "ended" /\ pcM \in {"done", "threw"} /\ pcH = "done"

\* C1: for every non-2xx upstream response, in the non-streaming and in the
\* streaming path, exactly one health escalation action (markAccountUnauthorized,
\* markAccountBlocked, markAccountOverloaded, recordServerError or
\* markAccountRateLimited) is invoked: never zero and never two.
C1_ExactlyOneEscalation ==
    (HandlingComplete /\ Non2xx(status)) => EscalationCount = 1

SuccessHandled ==
    /\ promise = "resolved"
    /\ \/ mode = "nonstream" /\ status \in {200, 201}
       \/ mode = "stream" /\ status = 200 /\ ~rld

HasUsageLine(b) ==
    LET ls == SplitLines(Decode(b))
    IN  \E i \in 1..(Len(ls) - 1) : ls[i] = <<"S">>

C4_NoUsageOnFailure ==
    (mode = "stream"
     /\ (Non2xx(status) \/ pc \in {"errored", "timedout", "setupFailed", "prepFailed"}))
        => usageLog = <<>>

\* C5: with no streamTransformer and an ingress that stays open, once the
\* stream has ended the bytes written to the ingress are exactly the bytes
\* received from the upstream, in order, for any chunking.
C5_VerbatimForwarding ==
    (mode = "stream" /\ pc = "ended" /\ status = 200 /\ ~ing.destroyed)
        => ing.out = upstream

\* C6: two getSession calls that both created a session for the same
\* host:port never leave both sessions open: the one that is not cached is
\* closed by the call that created it.
C6_LoserClosed ==
    \A c1 \in 1..NumCalls, c2 \in 1..NumCalls :
        (/\ c1 # c2
         /\ gcall[c1].pc = "done" /\ gcall[c2].pc = "done"
         /\ gcall[c1].got = c1 /\ gcall[c2].got = c2
         /\ gcall[c1].key = gcall[c2].key)
            => ~(sess[c1] = "open" /\ sess[c2] = "open")

\* C7: on a non-2xx answer to a streaming request the relay writes exactly one
\* `event: error` frame to the ingress and then ends it: nothing else is
\* written, nothing is written after the end, the ingress is ended once.
C7_OneErrorFrameThenEnd ==
    (mode = "stream" /\ pc = "ended" /\ Non2xx(status) /\ ~ing.destroyed)
        => /\ ing.out = <<"event: error", "api-error">>
           /\ ing.ends = 1
           /\ ing.late = 0

\* C8: on a non-2xx answer to a streaming request the promise of the
\* streaming relay is rejected, never resolved.
C8_RejectedOnNon2xx ==
    (mode = "stream" /\ Non2xx(status)) => promise # "resolved"

\* C9: a failure of a health-update call is swallowed: relayRequest still
\* returns the upstream response it received, and the streaming promise still
\* settles.
C9_HealthFailuresSwallowed ==
    /\ (mode = "nonstream" /\ pc = "done" /\ status # 0) => promise = "resolved"
    /\ (mode = "stream" /\ pcM = "threw") => promise # "pending"

\* C10: in relayRequest, when an ingress socket emits `close` while the
\* upstream request is in flight, the upstream request is aborted.
C10_DisconnectAborts ==
    closedInFlight => aborted

\* C11: in the streaming path, when the ingress stream emitted `close` before
\* the upstream stream ended, the upstream HTTP/2 stream (once it exists) is
\* closed and usageCallback is never invoked for the request.
C11_IngressCloseStopsStream ==
    (mode = "stream" /\ ing.destroyed)
        => /\ (pc \in {"open", "resp", "ended"} => upClosed)
           /\ usageLog = <<>>

\* C12: whenever the upstream returned 401 for an account, once the 401
\* branch has run the counter was incremented with its TTL set and
\* markAccountUnauthorized was called for that response, also when other
\* requests on the account (2xx ones that clear the counter included) are
\* interleaved with it (checked for the requests none of whose KV commands
\* failed).
C12_Every401Escalates ==
    \A r \in 1..NumReqs :
        (mode = "acct" /\ rq[r].status = 401 /\ rq[r].pc = "done" /\ ~rq[r].kvFailed)
            => rq[r].marked /\ rq[r].ttlSet

\* the relay is through with the response it received
ResponseFinished ==
    \/ mode = "nonstream" /\ pc = "done" /\ status # 0
    \/ mode = "stream" /\ pc = "ended" /\ pcM \in {"done", "threw"} /\ pcH = "done"
    \/ mode = "stream" /\ pc \in {"errored", "timedout"} /\ status # 0 /\ pcH = "done"

\* C13: when the upstream returned 429, markAccountRateLimited is called
\* exactly once for the response, with resetAt the integer value of the
\* anthropic-ratelimit-unified-reset header when it is present and null when
\* it is absent, in the non-streaming and in the streaming path.
C13_RateLimitedOnceWithResetAt ==
    (ResponseFinished /\ status = 429)
        => /\ CountCalls(calls, "markRateLimited") = 1
           /\ rlArgs = << IF hdrReset.present THEN ParseInt(hdrReset.text) ELSE Null >>

\* C14: for any upstream status, 2xx or not, relayRequest returns rather than
\* throws, and the response it returns has the statusCode, headers and body
\* received from the upstream, unchanged, with accountId set.
C14_ReturnsUpstreamResponse ==
    (mode = "nonstream" /\ pc = "done" /\ status # 0)
        => /\ promise = "resolved"
           /\ ret.statusCode = status
           /\ ret.has5h = hdr5h /\ ret.reset = hdrReset
           /\ ret.accountId = "selected"

\* C15: every health update triggered by an upstream response has completed
\* before the promise of the relay settles: no health call of
\* handleErrorResponse or of the stream 'end' handler is still outstanding
\* once the promise is resolved or rejected, in both paths.
C15_HealthBeforeSettle ==
    (mode \in {"nonstream", "stream"} /\ status # 0 /\ promise # "pending")
        => pcH # "run" /\ pcM # "await"

\* C16: createSession always settles: when neither a successful connect nor
\* an error occurred within the timeout counted from the call, the promise
\* has been rejected with the timeout error, in direct and in proxied mode,
\* whichever step of the connection stalls.
C16_CreateSessionSettles ==
    (mode = "conn" /\ clock > TimeoutTicks) => cs.result # "pending"

\* the preparer has returned the body that is sent upstream
Prepared == mode = "prep" /\ outp.done

\* C17: when the account has useUnifiedClientId and a unifiedClientId, the
\* outbound metadata.user_id has the form
\* user_<unifiedClientId>_account__session_<36 characters of [a-f0-9-]>, for
\* every incoming metadata.user_id: absent, well-formed, or any other string
\* (checked on the requests the preparer processes, count_tokens left aside).
C17_UnifiedUserId ==
    (Prepared /\ inp.unified /\ ~inp.body.isNull /\ ~inp.isCountTokens)
        => /\ Len(outp.body.userId) = 4
           /\ outp.body.userId[1] = "user_"
           /\ outp.body.userId[2] = "unifiedClientId"
           /\ outp.body.userId[3] = "_account__session_"
           /\ outp.body.userId[4] \in Uuids

\* the pricing table is readable and its entry for the model the preparer
\* sends (the default model when the body names none) has a ceiling
HasCeiling ==
    /\ inp.pricing \in {"max_tokens", "max_output_tokens"}
    /\ HasEntry(outp.body.model)

Min(a, b) == IF a < b THEN a ELSE b

\* max_tokens of the outbound body is min(requested, ceiling) when the model
\* has a ceiling, and the requested value (or still absent) when it has none
MaxTokensLimited ==
    /\ (HasCeiling /\ inp.body.maxTokens # Absent)
           => outp.body.maxTokens = Min(inp.body.maxTokens, Ceiling)
    /\ (~HasCeiling \/ inp.body.maxTokens = Absent)
           => outp.body.maxTokens = inp.body.maxTokens

\* C18 (as stated): whenever the model has an entry with a max_tokens or
\* max_output_tokens ceiling in the pricing table, the outbound max_tokens
\* equals min(requested, ceiling); with no entry it is passed through
\* unchanged. Stated for every request the preparer is given.
C18_MaxTokensClamped ==
    (Prepared /\ ~inp.body.isNull) => MaxTokensLimited

\* C18 (amended): the same, for every request other than count_tokens.
C18_ClampedUnlessCountTokens ==
    (Prepared /\ ~inp.body.isNull /\ ~inp.isCountTokens) => MaxTokensLimited

\* a request asking for more than the ceiling has been prepared and clamped
C18_Witness ==
    /\ Prepared /\ ~inp.body.isNull /\ ~inp.isCountTokens
    /\ HasCeiling
    /\ inp.body.maxTokens > Ceiling
    /\ outp.body.maxTokens = Ceiling

\* C19: the body sent upstream never contains a top_p field, whatever the
\* incoming top_p (a number or null) and with or without temperature
\* (checked on the requests the preparer processes, count_tokens left aside).
C19_NoTopP ==
    (Prepared /\ ~inp.body.isNull /\ ~inp.isCountTokens)
        => outp.body.topP = "absent"

\* C20: when the validator says the request is not a real Claude Code
\* request, the first element of the outbound system list is exactly the
\* Claude Code block {type: text, text: prompt, cache_control: {type:
\* ephemeral}}, whatever the incoming system was (checked on the requests the
\* preparer processes, count_tokens left aside).
C20_ClaudeCodeBlockFirst ==
    (Prepared /\ ~inp.body.isNull /\ ~inp.isCountTokens /\ ~inp.realCC)
        => /\ outp.body.system.kind = "list"
           /\ outp.body.system.items # <<>>
           /\ outp.body.system.items[1] = ClaudeCodeBlock

BetaDone == mode = "beta" /\ outp.done

IsKnownFeature(f) == f \in Range(FEATURE_ORDER)
OrderIndex(f) == CHOOSE i \in DOMAIN FEATURE_ORDER : FEATURE_ORDER[i] = f

\* the tokens buildBetaHeader admits: the non-empty trimmed segments of the
\* configured header that pass shouldIncludeFeature, context-1m when the
\* client asked for it, token-counting for a count_tokens path
AdmittedFeatures ==
    {TrimSegment(inp.base[i]) : i \in {j \in DOMAIN inp.base :
        /\ TrimSegment(inp.base[j]) # ""
        /\ shouldIncludeFeature(TrimSegment(inp.base[j]), inp.model)}}
    \cup (IF IncludesContext1m(inp.client) THEN {"context-1m-2025-08-07"} ELSE {})
    \cup (IF IncludesCountTokens(inp.customPath) THEN {"token-counting-2024-11-01"} ELSE {})

\* C21: the anthropic-beta value lists each admitted token once, the known
\* tokens in the order of FEATURE_ORDER, followed by any other tokens; and the
\* request path carries ?beta=true if and only if the header is set.
C21_CanonicalBetaOrder ==
    BetaDone =>
        LET beta == outp.body.beta
        IN  /\ Range(beta) = AdmittedFeatures
            /\ \A i, j \in DOMAIN beta : i # j => beta[i] # beta[j]
            /\ \A i, j \in DOMAIN beta :
                   (i < j /\ IsKnownFeature(beta[j]))
                       => /\ IsKnownFeature(beta[i])
                          /\ OrderIndex(beta[i]) < OrderIndex(beta[j])
            /\ outp.body.hasBeta <=> beta # <<>>
            /\ (outp.body.query = "?beta=true") <=> outp.body.hasBeta
            /\ outp.body.query \in {"", "?beta=true"}

\* a configured header naming another token before two known tokens in
\* reverse order has been turned into the canonical order
C21_Witness ==
    /\ BetaDone
    /\ inp.base = <<"custom-2025", "oauth-2025-04-20">>
    /\ inp.customPath = "/v1/messages/count_tokens?beta=true"
    /\ outp.body.beta = <<"oauth-2025-04-20", "token-counting-2024-11-01", "custom-2025">>
    /\ outp.body.query = "?beta=true"

\* C22: no cache_control object anywhere in the outbound body has a ttl
\* field, whatever the ttl value and wherever the object sits: system blocks,
\* message content blocks, blocks nested inside them, tools (checked on the
\* requests the preparer processes, count_tokens left aside).
C22_NoTtlAnywhere ==
    (Prepared /\ ~inp.body.isNull /\ ~inp.isCountTokens)
        => LET b == outp.body
               HasTtl(cc) == cc \in {"ttl", "ttl-falsy"}
           IN  /\ \A i \in DOMAIN b.system.items : ~HasTtl(b.system.items[i].cc)
               /\ \A i \in DOMAIN b.content :
                      ~HasTtl(b.content[i].cc) /\ ~HasTtl(b.content[i].innerCc)
               /\ ~HasTtl(b.toolCc)

\* C23: for a model ending in ":thinking" the outbound model is the base name
\* and the outbound body has thinking = {type: enabled, budget_tokens: B},
\* with B the outbound max_tokens minus 1 when max_tokens is present and 31999
\* when it is absent; for any other suffix the model is sent unchanged and no
\* thinking field is added (checked on the requests the preparer processes,
\* count_tokens left aside).
C23_ThinkingVariant ==
    (Prepared /\ ~inp.body.isNull /\ ~inp.isCountTokens)
        => IF inp.body.model.suffix = "thinking"
           THEN /\ outp.body.model = [inp.body.model EXCEPT !.suffix = "none"]
                /\ outp.body.thinking.on
                /\ outp.body.thinking.budget =
                       IF outp.body.maxTokens = Absent THEN DefaultBudget
                       ELSE outp.body.maxTokens - 1
           ELSE /\ outp.body.model = inp.body.model
                /\ outp.body.thinking = inp.body.thinking

\* C24: on an upstream stream error or timeout the relay emits an SSE
\* `event: error` on the ingress, ends the ingress and rejects the promise; the
\* status it chooses (written as the response head unless a head was already
\* sent; the frame is written while the ingress is not destroyed) is 502 for ECONNRESET, ENOTFOUND and ECONNREFUSED, 504 for ETIMEDOUT
\* and for a timeout, 500 for any other code.
C24_StreamErrorAnswered ==
    [][(mode = "stream" /\ pc \in {"open", "resp"} /\ pc' \in {"errored", "timedout"})
        => LET chosen == IF pc' = "timedout" THEN 504
                         ELSE IF errCode' \in {"ECONNRESET", "ENOTFOUND", "ECONNREFUSED"}
                         THEN 502
                         ELSE IF errCode' = "ETIMEDOUT" THEN 504
                         ELSE 500
               frame == IF pc' = "timedout" THEN "timeout" ELSE "stream-error"
           IN  /\ promise' = "rejected"
               /\ ing.head = 0 => ing'.head = chosen
               /\ ~ing.destroyed
                      => /\ ing'.out = ing.out \o <<"event: error", frame>>
                         /\ ing'.ends = 1
                         /\ ing'.late = 0]_vars

\* a stream error with code ETIMEDOUT was answered with a 504 head, the error
\* frame and the end of the ingress
C24_Witness ==
    /\ mode = "stream" /\ pc = "errored" /\ errCode = "ETIMEDOUT"
    /\ ing.head = 504
    /\ ing.out = <<"event: error", "stream-error">>
    /\ ing.ends = 1
    /\ promise = "rejected"

\* C25: _retryRequest(f, N) invokes f at most N times (3 by default),
\* returns the result of the first successful invocation without invoking f
\* again, waits 2^i * 1000 ms only between a failed attempt i and the next
\* attempt (never after the last one), and after N consecutive failures throws
\* the error of the last attempt.
C25_RetryBackoff ==
    mode = "retry" =>
        LET r == outp.body
            n == Len(r.outcomes)
            failures == {k \in 1..n : r.outcomes[k] \in FuncErrors}
            N == IF inp.given THEN inp.maxRetries ELSE 3
        IN  /\ n <= N
            /\ \A k \in 1..n : r.outcomes[k] \in FuncResults => k = n
            /\ \A k \in DOMAIN r.delays : r.delays[k] = 2^(k - 1) * 1000
            /\ Len(r.delays) = Cardinality(failures \ {N})
            /\ r.at = "sleeping" => (n >= 1 /\ n < N /\ r.outcomes[n] \in FuncErrors)
            /\ (outp.done /\ r.settled = "returned")
                   => (n >= 1 /\ r.outcomes[n] \in FuncResults /\ r.value = r.outcomes[n])
            /\ (outp.done /\ r.settled = "threw" /\ N >= 1)
                   => (n = N /\ failures = 1..N /\ r.value = r.outcomes[N]
                       /\ Len(r.delays) = N - 1)
            /\ (n = N /\ failures = 1..N /\ N >= 1 /\ outp.done) => r.settled = "threw"

\* three attempts failed with different errors: two delays were slept and the
\* last error was thrown
C25_Witness ==
    /\ mode = "retry" /\ outp.done
    /\ ~inp.given
    /\ outp.body.outcomes = <<"error-a", "error-a", "error-b">>
    /\ outp.body.delays = <<1000, 2000>>
    /\ outp.body.settled = "threw" /\ outp.body.value = "error-b"

\* C26: a server error is recorded for the account (recordServerError) for
\* every upstream response with a status in 500..599 and for every upstream
\* connection timeout, in the non-streaming path and in the streaming path.
C26_ServerErrorRecorded ==
    /\ (ResponseFinished /\ status >= 500 /\ status <= 599)
           => "recordServerError" \in CallSet
    /\ (mode = "nonstream" /\ pc = "done" /\ errCode = "timeout")
           => "recordServerError" \in CallSet
    /\ (mode = "stream" /\ pc = "timedout" /\ pcH \in {"idle", "done"})
           => "recordServerError" \in CallSet

\* C27: handling of 5xx and timeout errors only records and logs: however
\* many server errors accumulate for an account, _handleServerError never
\* marks the account unauthorized, blocked, overloaded or rate-limited and
\* never removes its sticky session, and a failure inside it never propagates
\* to the caller.
C27_ServerErrorsOnlyLogged ==
    mode = "srv"
        => /\ outp.body.flags = InService
           /\ outp.body.thrown = 0
           /\ outp.body.alerts <= outp.body.returned

\* the counter has passed the threshold and the handler has logged its alert
C27_Witness ==
    /\ mode = "srv" /\ outp.body.at = "idle"
    /\ outp.body.count > ServerErrorThreshold
    /\ outp.body.alerts >= 1
    /\ outp.body.flags = InService

\* C28: createProxyAgent returns null and caches nothing for every descriptor
\* that validateProxyConfig rejects: a missing type, host or port, a type
\* outside {socks5, http, https}, a port outside [1, 65535].
C28_InvalidProxyRejected ==
    (mode = "proxy" /\ outp.done /\ ~validateProxyConfig(inp))
        => /\ outp.body.agent = NoAgent
           /\ outp.body.cache = outp.body.before

\* C29: the 401 counter and its TTL are set together: in no reachable state,
\* under any interleaving of requests on the account and any failure of a
\* single KV call, does the counter exist with a positive value and no expiry.
C29_CounterHasTtl ==
    mode = "acct" => (kv401.n > 0 => kv401.ttl)

\* C30: a message_start that arrives while the current usage record holds
\* input tokens and no output tokens pushes that record and starts a fresh
\* one, so the input tokens of the final usage are the sum of the input
\* tokens over all the message_start events of the stream (input_tokens,
\* cache_creation_input_tokens and cache_read_input_tokens are collected and
\* summed by the same statements; the model keeps one of them).
C30_InputTokensSummed ==
    (mode = "usage" /\ outp.done /\ Len(outp.body.log) > 0)
        => outp.body.log[1].in = outp.body.startTokens

\* the usage tap of a request without streamTransformer after the chunks cs:
\* t = [buffer, cur, all, rld]
RECURSIVE PlainTap(_, _)
PlainTap(t, chunks) ==
    IF chunks = <<>> THEN t
    ELSE LET ls == SplitLines(t.buffer \o Decode(chunks[1]))
             u == ProcessLines([cur |-> t.cur, all |-> t.all, rld |-> t.rld], Front(ls))
         IN  PlainTap([buffer |-> Last(ls), cur |-> u.cur, all |-> u.all, rld |-> u.rld],
                      Tail(chunks))

PlainTapStart == [buffer |-> <<>>, cur |-> NoUsage, all |-> <<>>, rld |-> FALSE]

\* C31: the usage parser sees the original upstream bytes: for the chunk
\* sequence received, the usage passed to usageCallback and the rate-limit
\* flag of a request with a streamTransformer are those of the request
\* without one, whatever the transformer returned.
C31_TransformerBlindTap ==
    (mode = "stream" /\ pc = "ended" /\ outp = WithTransformer)
        => LET t == PlainTap(PlainTapStart, inp)
           IN  /\ usageLog = UsageCallbacks(<<>>, FinishUsage(t.cur, t.all))
               /\ rld = t.rld

\* a complete line of the stream is the error event with the rate-limit text
HasRateLimitLine(b) ==
    LET ls == SplitLines(Decode(b))
    IN  \E i \in 1..(Len(ls) - 1) : ls[i] = <<"E">>

\* C32: for any non-2xx upstream response whose body carries the rate-limit
\* text, whatever its status code, markAccountRateLimited is called: in the
\* non-streaming path once relayRequest has returned the response, in the
\* streaming path once the stream has ended and the handlers have finished.
C32_MarkerAlwaysRateLimits ==
    /\ (mode = "nonstream" /\ pc = "done" /\ Non2xx(status)
            /\ ret.statusCode = status /\ ret.marker)
           => "markRateLimited" \in CallSet
    /\ (mode = "stream" /\ pc = "ended" /\ pcM \in {"done", "threw"} /\ pcH = "done"
            /\ Non2xx(status) /\ HasRateLimitLine(upstream))
           => "markRateLimited" \in CallSet

\* C33 as claimed: once relayRequest has finished, by returning or by
\* throwing, its `close` listener is registered on neither ingress object.
C33_NoListenerLeft ==
    (mode = "nonstream" /\ pc = "done") => listening = {}

\* C33 amended: once relayRequest has finished without a failure of the
\* upstream dispatch (it returned the response, or it threw because the
\* account selection, the token lookup or a health update failed), its
\* `close` listener is registered on neither ingress object.
C33_NoListenerLeftUnlessDispatchFailed ==
    (mode = "nonstream" /\ pc = "done" /\ errCode = "none") => listening = {}

\* C33 witness: relayRequest threw after the response arrived (a health
\* update failed) and no listener is registered
C33_Witness ==
    /\ mode = "nonstream" /\ pc = "done" /\ status # 0
    /\ promise = "rejected" /\ errCode = "none"
    /\ listening = {}

\* C34: an error, GOAWAY or close event of a session never removes the pool
\* entry of another session: when session i raises the event, every key that
\* holds a session other than i keeps it.
C34_EvictsOnlyOwnEntry ==
    [][\A i \in 1..NumCalls :
          (SessionGoaway(i) \/ SessionClose(i))
              => \A k \in SessionKeys :
                    sessions[k] \notin {0, i} => sessions'[k] = sessions[k]]_vars

\* the agent through which session i was established: the one of the
\* getSession call that created it
EstablishedVia(i) == gcall[i].agent

\* C35: the session getSession returns to a call was established through the
\* agent the call carries: a request with proxy agent P is never sent over a
\* session created directly or through another proxy, and a request without
\* proxy never over a proxied session.
C35_SessionMatchesAgent ==
    \A c \in 1..NumCalls :
        (mode = "pool" /\ gcall[c].pc = "done")
            => EstablishedVia(gcall[c].got) = gcall[c].agent

\* the ingress output, the usage callbacks and the rate-limit flag of a
\* stream whose bytes b arrive in one chunk (no streamTransformer, ingress
\* open)
OneChunkOutcome(b) ==
    LET chunks == IF b = <<>> THEN <<>> ELSE <<b>>
        t == PlainTap(PlainTapStart, chunks)
        ls == SplitLines(Decode(b))
    IN  [out |-> FlushAndEnd(ForwardLines(IngInit, Front(ls)), Last(ls)).out,
         log |-> UsageCallbacks(<<>>, FinishUsage(t.cur, t.all)),
         rld |-> t.rld]

\* the stream of a request without streamTransformer ended, ingress open
EndedPlain ==
    /\ mode = "stream" /\ pc = "ended" /\ status = 200
    /\ outp = NoTransformer /\ ~ing.destroyed

\* C36: for a fixed upstream byte sequence the outcome of the streaming relay
\* does not depend on the chunking: the bytes forwarded to the ingress, the
\* final usage and the rate-limit flag are those of the same bytes arriving
\* in one chunk.
C36_ChunkingIndependent ==
    EndedPlain
        => /\ ing.out = OneChunkOutcome(upstream).out
           /\ usageLog = OneChunkOutcome(upstream).log
           /\ rld = OneChunkOutcome(upstream).rld

\* the usage tap after every line of the stream b, the last line included
\* whether or not a newline follows it
AllLinesTap(b) ==
    ProcessLines([cur |-> NoUsage, all |-> <<>>, rld |-> FALSE], SplitLines(Decode(b)))

\* C37: a last `data: ` line that the upstream sends without a trailing
\* newline is forwarded at the end of the stream and is examined by the usage
\* parser like every other line: the final usage and the rate-limit flag are
\* those of all the lines of the stream.
C37_LastLineParsed ==
    EndedPlain
        => /\ usageLog = UsageCallbacks(<<>>, FinishUsage(AllLinesTap(upstream).cur,
                                                           AllLinesTap(upstream).all))
           /\ rld = AllLinesTap(upstream).rld

\* C38: the promise of the streaming relay eventually settles and is settled
\* once: it never stays pending forever, and once resolved or rejected it
\* does not change.
C38_PromiseSettles ==
    /\ (mode = "stream") ~> (promise # "pending")
    /\ [][promise # "pending" => promise' = promise]_vars

\* C39: the cached unified User-Agent never goes back to an older version:
\* whenever the stored value is replaced, the new value is strictly newer
\* than the value stored at the time of the write.
C39_UserAgentNeverOlder ==
    [][(mode = "ua" /\ outp.body.stored # NoUA /\ outp'.body.stored # outp.body.stored)
          => compareSemanticVersions(outp'.body.stored, outp.body.stored) > 0]_vars

\* C40: the agent createProxyAgent returns was built with the credentials of
\* the descriptor it was called with: a descriptor that differs from an
\* earlier one only in its password does not receive the earlier agent.
C40_AgentHasOwnCredentials ==
    (mode = "proxyauth" /\ outp.done) => outp.body.agent.auth = AuthOf(inp)

====
